---- MODULE Spec2Model ----
(***************************************************************************)
(* Model of the lightburn-auto-align alignment pipeline:                   *)
(*   ArucoAligner       (src/aruco_align.py)                               *)
(*   DesignWarper       (src/design_warp.py)                               *)
(*   AlignmentWorkflow  (src/align_tool.py)                                *)
(*   LightBurnController(src/lightburn_udp.py)                             *)
(*                                                                         *)
(* Numbers.  A float of the program is held as the exact rational          *)
(* <<num, den>> it stands for: millimetre points and rectangles, and the   *)
(* pixel results of the homography.  Marker positions and centroids given  *)
(* to findHomography are integers.  A 3x3 homography is an integer matrix  *)
(* up to a common factor, normalised by the gcd of its entries with        *)
(* h33 > 0 (cv2 normalises h33 = 1).                                       *)
(***************************************************************************)
EXTENDS Integers, Sequences, FiniteSets, TLC

VARIABLES
    jig_config,        \* ArucoAligner.jig_config
    image,             \* ArucoAligner.image (0 = None, else the image id)
    detected_markers,  \* ArucoAligner.detected_markers (id -> centroid)
    homography,        \* ArucoAligner.homography (<<>> = None)
    corr,              \* src_points/dst_points of the last calculate_homography
    ret,               \* outcome of the last ArucoAligner call
    warper,            \* DesignWarper instances
    wret,              \* outcome of the last DesignWarper call, per instance
    wf,                \* AlignmentWorkflow fields and inputs of the request
    pc,                \* position of run_complete_workflow
    log,               \* stages of the current request, in order
    files,             \* files written under output_dir
    sent,              \* device commands sent during the current request
    lb,                \* LightBurnController: the call in progress or last made
    placer,            \* DesignPlacer.place_design_interactive: the session in progress
    cam,               \* the interactive capture in progress: camera handle and window
    job                \* wait_for_ready / load_and_start: the call in progress

alignerVars == <<jig_config, image, detected_markers, homography, corr, ret>>
warperVars == <<warper, wret>>
workflowVars == <<wf, pc, log, files, sent>>
controllerVars == <<lb>>
sessionVars == <<placer, cam, job>>
vars == <<jig_config, image, detected_markers, homography, corr, ret,
          warper, wret, wf, pc, log, files, sent, lb, placer, cam, job>>

----------------------------------------------------------------------------
(* Bounds *)

\* design dimensions 0..MaxSmallTenths tenths of a millimetre are enumerated
MaxSmallTenths == 6

----------------------------------------------------------------------------
(* Arithmetic helpers *)

None == <<>>

Abs(n) == IF n < 0 THEN 0 - n ELSE n

RECURSIVE Gcd(_, _)
Gcd(a, b) == IF b = 0 THEN a ELSE Gcd(b, a % b)

\* a rational as a normalised pair <<numerator, denominator>>, denominator > 0
Rat(n, d) ==
    LET g == Gcd(Abs(n), Abs(d))
        s == IF d < 0 THEN 0 - 1 ELSE 1
    IN  <<(s * n) \div g, (s * d) \div g>>

\* sums and products reduce before they multiply, to keep the integers small
RatAdd(p, q) ==
    LET g == Gcd(p[2], q[2])
    IN  Rat(p[1] * (q[2] \div g) + q[1] * (p[2] \div g), (p[2] \div g) * q[2])

RatNeg(p) == <<0 - p[1], p[2]>>
RatSub(p, q) == RatAdd(p, RatNeg(q))

RatMul(p, q) ==
    LET a == Rat(p[1], q[2])
        b == Rat(q[1], p[2])
    IN  Rat(a[1] * b[1], a[2] * b[2])

RatInt(n) == <<n, 1>>

\* int(x) of Python for a rational n/d with d > 0: truncation toward zero
TruncDiv(n, d) == IF n >= 0 THEN n \div d ELSE 0 - ((0 - n) \div d)

\* round(x) of Python for a rational n/d with d > 0, n >= 0: half to even
RoundDiv(n, d) ==
    LET q == n \div d
        r == n % d
    IN  IF 2 * r < d THEN q
        ELSE IF 2 * r > d THEN q + 1
        ELSE IF q % 2 = 0 THEN q ELSE q + 1

----------------------------------------------------------------------------
(* 3x3 matrices over the integers, up to a common factor *)

MatGcd(M) ==
    LET RECURSIVE G(_, _)
        G(k, acc) == IF k > 9 THEN acc
                     ELSE G(k + 1, Gcd(acc, Abs(M[((k - 1) \div 3) + 1][((k - 1) % 3) + 1])))
    IN  G(1, 0)

\* tuples, not function constructors: every entry is computed once
MatNormalize(M) ==
    LET g == MatGcd(M)
        lead == IF M[3][3] # 0 THEN M[3][3]
                ELSE IF M[3][2] # 0 THEN M[3][2]
                ELSE IF M[3][1] # 0 THEN M[3][1]
                ELSE 1
        s == IF lead < 0 THEN 0 - 1 ELSE 1
        e(i, j) == (s * M[i][j]) \div g
    IN  IF g = 0 THEN M
        ELSE << <<e(1, 1), e(1, 2), e(1, 3)>>,
                <<e(2, 1), e(2, 2), e(2, 3)>>,
                <<e(3, 1), e(3, 2), e(3, 3)>> >>

MatMul(A, B) ==
    LET e(i, j) == A[i][1] * B[1][j] + A[i][2] * B[2][j] + A[i][3] * B[3][j]
    IN  << <<e(1, 1), e(1, 2), e(1, 3)>>,
           <<e(2, 1), e(2, 2), e(2, 3)>>,
           <<e(3, 1), e(3, 2), e(3, 3)>> >>

MatDet(M) ==
      M[1][1] * (M[2][2] * M[3][3] - M[2][3] * M[3][2])
    - M[1][2] * (M[2][1] * M[3][3] - M[2][3] * M[3][1])
    + M[1][3] * (M[2][1] * M[3][2] - M[2][2] * M[3][1])

MatAdj(M) ==
    <<  <<M[2][2] * M[3][3] - M[2][3] * M[3][2],
          M[1][3] * M[3][2] - M[1][2] * M[3][3],
          M[1][2] * M[2][3] - M[1][3] * M[2][2]>>,
        <<M[2][3] * M[3][1] - M[2][1] * M[3][3],
          M[1][1] * M[3][3] - M[1][3] * M[3][1],
          M[1][3] * M[2][1] - M[1][1] * M[2][3]>>,
        <<M[2][1] * M[3][2] - M[2][2] * M[3][1],
          M[1][2] * M[3][1] - M[1][1] * M[3][2],
          M[1][1] * M[2][2] - M[1][2] * M[2][1]>> >>

----------------------------------------------------------------------------
(* Jig configurations: the JSON file read by load_jig_config.  A marker    *)
(* key is the JSON object key, a decimal string, held as its digits.       *)

BoardSizeMm == 200

\* int(marker_id_str)
ParseInt(digits) ==
    LET RECURSIVE P(_, _)
        P(k, acc) == IF k > Len(digits) THEN acc ELSE P(k + 1, 10 * acc + digits[k])
    IN  P(1, 0)

\* the configuration written by MarkerBoardGenerator.create_config
Jig4 ==
    [ jig_name |-> "default",
      board_size_mm |-> BoardSizeMm,
      markers |-> << [key |-> <<0>>, position_mm |-> <<0, 0>>],
                     [key |-> <<1>>, position_mm |-> <<BoardSizeMm, 0>>],
                     [key |-> <<2>>, position_mm |-> <<BoardSizeMm, BoardSizeMm>>],
                     [key |-> <<3>>, position_mm |-> <<0, BoardSizeMm>>] >> ]

\* a jig with a fifth marker inside the board
Jig5 ==
    [ jig_name |-> "default",
      board_size_mm |-> BoardSizeMm,
      markers |-> Jig4.markers \o << [key |-> <<1, 0>>, position_mm |-> <<50, 100>>] >> ]

\* a jig with only three markers configured
Jig3 ==
    [ jig_name |-> "default",
      board_size_mm |-> BoardSizeMm,
      markers |-> SubSeq(Jig4.markers, 1, 3) ]

JigConfigs == {Jig4, Jig5, Jig3}

ConfiguredIds(jig) == {ParseInt(jig.markers[k].key) : k \in 1..Len(jig.markers)}

----------------------------------------------------------------------------
(* Camera snapshots: what cv2.imread and the ArUco detector return for     *)
(* each image file.  Centroids are pixel coordinates.                      *)

Images == 1..7

\* cv2.imread returns None for image 5
ImageReadable(i) == i # 5

\* (width, height) of the loaded image
ImageSize(i) == IF i = 1 THEN <<640, 480>> ELSE <<1920, 1080>>

EmptyMarkers == [m \in {} |-> <<0, 0>>]

\* ids and centroids found by detector.detectMarkers
DetectorOutput(i) ==
    CASE i = 1 -> (0 :> <<0, 0>>) @@ (1 :> <<200, 0>>) @@ (2 :> <<200, 200>>)
                  @@ (3 :> <<0, 200>>) @@ (10 :> <<50, 100>>)
      [] i = 2 -> (0 :> <<100, 500>>) @@ (1 :> <<500, 500>>) @@ (2 :> <<500, 100>>)
                  @@ (3 :> <<100, 100>>) @@ (10 :> <<200, 300>>) @@ (7 :> <<300, 300>>)
      [] i = 3 -> (0 :> <<10, 20>>) @@ (1 :> <<210, 20>>) @@ (2 :> <<210, 220>>)
                  @@ (10 :> <<60, 120>>) @@ (7 :> <<300, 300>>)
      [] i = 6 -> (0 :> <<0, 0>>) @@ (1 :> <<100, 0>>) @@ (2 :> <<200, 0>>)
                  @@ (3 :> <<300, 0>>)
      [] i = 7 -> (0 :> <<0, 0>>) @@ (1 :> <<200, 0>>) @@ (2 :> <<150, 100>>)
                  @@ (3 :> <<50, 100>>)
      [] OTHER -> EmptyMarkers

----------------------------------------------------------------------------
(* cv2.findHomography(src, dst, cv2.RANSAC, 5.0) and                       *)
(* cv2.perspectiveTransform                                                *)

RansacThresholdPx == 5

\* projective map of the unit square onto the quadrilateral q (4 points)
QuadMatrix(q) ==
    LET x0 == q[1][1]  y0 == q[1][2]
        x1 == q[2][1]  y1 == q[2][2]
        x2 == q[3][1]  y2 == q[3][2]
        x3 == q[4][1]  y3 == q[4][2]
        dx1 == x1 - x2  dx2 == x3 - x2
        dy1 == y1 - y2  dy2 == y3 - y2
        sx == x0 - x1 + x2 - x3
        sy == y0 - y1 + y2 - y3
        den == dx1 * dy2 - dx2 * dy1
        gn == sx * dy2 - dx2 * sy
        hn == dx1 * sy - sx * dy1
    IN  MatNormalize(
          << <<(x1 - x0) * den + gn * x1, (x3 - x0) * den + hn * x3, x0 * den>>,
             <<(y1 - y0) * den + gn * y1, (y3 - y0) * den + hn * y3, y0 * den>>,
             <<gn, hn, den>> >>)

\* the four points are not in general position (three of them collinear)
QuadDegenerate(q) == MatDet(QuadMatrix(q)) = 0

\* the matrix a degenerate 4-point solve leaves behind: not invertible
SingularMatrix == << <<0, 0, 0>>, <<0, 0, 0>>, <<0, 0, 1>> >>

\* the solve taken in the wrong direction: from the pixels to the millimetres
Solve4Inverse(src4, dst4) ==
    IF QuadDegenerate(src4) \/ QuadDegenerate(dst4) THEN None
    ELSE MatNormalize(MatMul(QuadMatrix(src4), MatNormalize(MatAdj(QuadMatrix(dst4)))))

\* exact homography through four correspondences, None when degenerate
Solve4(src4, dst4) ==
    IF QuadDegenerate(src4) \/ QuadDegenerate(dst4) THEN None
    ELSE MatNormalize(MatMul(QuadMatrix(dst4), MatNormalize(MatAdj(QuadMatrix(src4)))))

\* homogeneous image <<X, Y, W>> of the point p
ApplyHomogeneous(H, p) ==
    << H[1][1] * p[1] + H[1][2] * p[2] + H[1][3],
       H[2][1] * p[1] + H[2][2] * p[2] + H[2][3],
       H[3][1] * p[1] + H[3][2] * p[2] + H[3][3] >>

\* cv2.perspectiveTransform of one point with rational coordinates: a pair
\* of rationals, (0, 0) when the point maps to infinity
PerspectiveTransform(H, p) ==
    LET a == p[1][1] * p[2][2]
        b == p[2][1] * p[1][2]
        q == p[1][2] * p[2][2]
        X == H[1][1] * a + H[1][2] * b + H[1][3] * q
        Y == H[2][1] * a + H[2][2] * b + H[2][3] * q
        W == H[3][1] * a + H[3][2] * b + H[3][3] * q
    IN  IF W = 0 THEN <<RatInt(0), RatInt(0)>>
        ELSE <<Rat(X, W), Rat(Y, W)>>

\* reprojection error of (s, d) under H is within the RANSAC threshold
IsInlier(H, s, d) ==
    LET v == ApplyHomogeneous(H, s)
        ex == v[1] - d[1] * v[3]
        ey == v[2] - d[2] * v[3]
    IN  /\ v[3] # 0
        /\ ex * ex + ey * ey <= RansacThresholdPx * RansacThresholdPx * v[3] * v[3]

InlierCount(H, src, dst) == Cardinality({k \in 1..Len(src) : IsInlier(H, src[k], dst[k])})

\* ascending 4-element index samples of 1..n
Samples(n) ==
    {s \in [1..4 -> 1..n] : s[1] < s[2] /\ s[2] < s[3] /\ s[3] < s[4]}

SampleSolve(src, dst, s) ==
    Solve4(<<src[s[1]], src[s[2]], src[s[3]], src[s[4]]>>,
           <<dst[s[1]], dst[s[2]], dst[s[3]], dst[s[4]]>>)

\* cv2.error raised by the library call itself
CvError == <<"cv2.error">>

\* the matrices findHomography can return; None when it finds no model.
\* With exactly 4 points the solve is direct, and on degenerate input it
\* yields either no matrix or a matrix that is not invertible.  Fewer than
\* 4 points are rejected by the library.
FindHomography(src, dst) ==
    IF Len(src) < 4 THEN {CvError}
    ELSE IF Len(src) = 4
    THEN LET H == Solve4(src, dst)
         IN  IF H = None THEN {None, SingularMatrix} ELSE {H}
    ELSE LET cands == {s \in Samples(Len(src)) : SampleSolve(src, dst, s) # None}
             score(s) == InlierCount(SampleSolve(src, dst, s), src, dst)
             best == {s \in cands : \A t \in cands : score(t) <= score(s)}
         IN  IF cands = {} THEN {None}
             ELSE {SampleSolve(src, dst, s) : s \in best}

----------------------------------------------------------------------------
(* ArucoAligner: each method as a function of the object's fields          *)
(*   s = [image, detected_markers, homography, corr]                       *)
(* to the object's fields after the call and the call's outcome.           *)

\* inputs of the calls
MmPoint(x, y) == <<RatInt(x), RatInt(y)>>
MmRect(x, y, w, h) == <<RatInt(x), RatInt(y), RatInt(w), RatInt(h)>>
MmPoints == {MmPoint(0, 0), MmPoint(50, 0), <<Rat(1005, 10), RatInt(100)>>}
DesignRects == {MmRect(75, 75, 50, 50), MmRect(50, 50, 100, 80)}

Outcome(s, status, err, val) == [s |-> s, status |-> status, err |-> err, val |-> val]
Returns(s, val) == Outcome(s, "ok", "", val)
Raises(s, err) == Outcome(s, "raise", err, None)

\* ArucoAligner.__init__
NewAligner ==
    [image |-> 0, detected_markers |-> EmptyMarkers, homography |-> None, corr |-> <<>>]

load_image(s, i) ==
    IF ~ImageReadable(i)
    THEN Raises([s EXCEPT !.image = 0], "ValueError: Could not load image")
    ELSE Returns([s EXCEPT !.image = i], None)

detect_markers(s) ==
    IF s.image = 0 THEN Raises(s, "cv2.error")
    ELSE IF DOMAIN DetectorOutput(s.image) = {}
    THEN Raises(s, "ValueError: No ArUco markers detected in image")
    ELSE Returns([s EXCEPT !.detected_markers = DetectorOutput(s.image)],
                 DetectorOutput(s.image))

\* the loop stops one marker short of the end of the configuration
CorrespondencesDropLast(jig, detected) ==
    LET RECURSIVE Build(_, _)
        Build(k, acc) ==
            IF k >= Len(jig.markers) THEN acc
            ELSE LET marker_id == ParseInt(jig.markers[k].key)
                 IN  IF marker_id \notin DOMAIN detected
                     THEN Build(k + 1, acc)
                     ELSE Build(k + 1, Append(acc,
                              [id |-> marker_id,
                               mm |-> jig.markers[k].position_mm,
                               px |-> detected[marker_id]]))
    IN  Build(1, <<>>)

\* the src_points / dst_points lists, one entry per loop iteration that
\* reaches the appends
Correspondences(jig, detected) ==
    LET RECURSIVE Build(_, _)
        Build(k, acc) ==
            IF k > Len(jig.markers) THEN acc
            ELSE LET marker_id == ParseInt(jig.markers[k].key)
                 IN  IF marker_id \notin DOMAIN detected
                     THEN Build(k + 1, acc)
                     ELSE Build(k + 1, Append(acc,
                              [id |-> marker_id,
                               mm |-> jig.markers[k].position_mm,
                               px |-> detected[marker_id]]))
    IN  Build(1, <<>>)

SrcPoints(c) == [k \in 1..Len(c) |-> c[k].mm]
DstPoints(c) == [k \in 1..Len(c) |-> c[k].px]

\* the threshold off by one: three correspondences are let through
MinMarkersOffByOne == 4 - 1

\* minimum number of correspondences accepted by calculate_homography
MinMarkers == 4

\* cv2.findHomography on the correspondences of every jig and detected set
\* of the model, evaluated once
DetectedSets == {DetectorOutput(i) : i \in Images}

HomographyOf ==
    LET solve(k) ==
            LET c == Correspondences(k[1], k[2])
            IN  FindHomography(SrcPoints(c), DstPoints(c))
        RECURSIVE Table(_)
        Table(keys) ==
            IF keys = {} THEN <<>>
            ELSE LET k == CHOOSE x \in keys : TRUE
                 IN  (k :> solve(k)) @@ Table(keys \ {k})
    IN  Table(JigConfigs \X DetectedSets)

\* a best-effort estimate: with too few correspondences, or when the solver
\* finds nothing, the identity is taken as the homography
calculate_homography_best_effort(s, jig) ==
    LET c == Correspondences(jig, s.detected_markers)
        s1 == [s EXCEPT !.corr = c]
        I == <<<<1, 0, 0>>, <<0, 1, 0>>, <<0, 0, 1>>>>
    IN  IF Len(c) < MinMarkers
        THEN {Returns([s1 EXCEPT !.homography = I], I)}
        ELSE {IF H = CvError \/ H = None
              THEN Returns([s1 EXCEPT !.homography = I], I)
              ELSE Returns([s1 EXCEPT !.homography = H], H)
              : H \in IF <<jig, s.detected_markers>> \in DOMAIN HomographyOf
                       THEN HomographyOf[<<jig, s.detected_markers>>]
                       ELSE FindHomography(SrcPoints(c), DstPoints(c))}

\* a detected marker of the configuration has no 'position_mm' key:
\* marker_info['position_mm'] raises KeyError inside the loop
MissingPosition(jig, detected) ==
    \E k \in 1..Len(jig.markers) :
        /\ ParseInt(jig.markers[k].key) \in DOMAIN detected
        /\ "position_mm" \notin DOMAIN jig.markers[k]

calculate_homography(s, jig) ==
    LET c == Correspondences(jig, s.detected_markers)
        s1 == [s EXCEPT !.corr = c]
    IN  IF MissingPosition(jig, s.detected_markers)
        THEN {Raises(s, "KeyError: 'position_mm'")}
        ELSE IF Len(c) < MinMarkers
        THEN {Raises(s1, "ValueError: Need at least 4 markers")}
        ELSE {IF H = CvError THEN Raises(s1, "cv2.error")
              ELSE IF H = None
              THEN Raises([s1 EXCEPT !.homography = H], "ValueError: Failed to calculate homography")
              ELSE Returns([s1 EXCEPT !.homography = H], H)
              : H \in IF <<jig, s.detected_markers>> \in DOMAIN HomographyOf
                       THEN HomographyOf[<<jig, s.detected_markers>>]
                       ELSE FindHomography(SrcPoints(c), DstPoints(c))}

transform_point(s, point_mm) ==
    IF s.homography = None THEN Raises(s, "ValueError: Homography not calculated yet")
    ELSE Returns(s, PerspectiveTransform(s.homography, point_mm))

\* corners in the order bottom-left, bottom-right, top-right, top-left
RectCorners(rect_mm) ==
    << <<rect_mm[1], rect_mm[2]>>,
       <<RatAdd(rect_mm[1], rect_mm[3]), rect_mm[2]>>,
       <<RatAdd(rect_mm[1], rect_mm[3]), RatAdd(rect_mm[2], rect_mm[4])>>,
       <<rect_mm[1], RatAdd(rect_mm[2], rect_mm[4])>> >>

\* p <= q for normalised rationals
RatLeq(p, q) == p[1] * q[2] <= q[1] * p[2]

RatMin4(a, b, c, d) ==
    LET m(x, y) == IF RatLeq(x, y) THEN x ELSE y
    IN  m(m(a, b), m(c, d))

RatMax4(a, b, c, d) ==
    LET m(x, y) == IF RatLeq(x, y) THEN y ELSE x
    IN  m(m(a, b), m(c, d))

\* corners of the axis-aligned bounding box of four points
BoundingBoxCorners(c) ==
    LET x0 == RatMin4(c[1][1], c[2][1], c[3][1], c[4][1])
        x1 == RatMax4(c[1][1], c[2][1], c[3][1], c[4][1])
        y0 == RatMin4(c[1][2], c[2][2], c[3][2], c[4][2])
        y1 == RatMax4(c[1][2], c[2][2], c[3][2], c[4][2])
    IN  << <<x0, y0>>, <<x1, y0>>, <<x1, y1>>, <<x0, y1>> >>

\* the rectangle transform returns the bounding box of the transformed corners
transform_rect_bbox(s, rect_mm) ==
    IF s.homography = None THEN Raises(s, "cv2.error")
    ELSE LET c == RectCorners(rect_mm)
             H == s.homography
         IN  Returns(s, BoundingBoxCorners(
                          << PerspectiveTransform(H, c[1]), PerspectiveTransform(H, c[2]),
                             PerspectiveTransform(H, c[3]), PerspectiveTransform(H, c[4]) >>))

\* no guard on self.homography: cv2.perspectiveTransform rejects a None matrix
transform_rect(s, rect_mm) ==
    IF s.homography = None THEN Raises(s, "cv2.error")
    ELSE LET c == RectCorners(rect_mm)
             H == s.homography
         IN  Returns(s, << PerspectiveTransform(H, c[1]), PerspectiveTransform(H, c[2]),
                           PerspectiveTransform(H, c[3]), PerspectiveTransform(H, c[4]) >>)

get_board_bounds_px(s, jig) ==
    transform_rect(s, MmRect(0, 0, jig.board_size_mm, jig.board_size_mm))

\* the centre taken as the midpoint of the diagonal
MeanPointDiagonal(corners) ==
    << RatMul(RatAdd(corners[1][1], corners[3][1]), <<1, 2>>),
       RatMul(RatAdd(corners[1][2], corners[3][2]), <<1, 2>>) >>

\* np.mean(corners_px, axis=0)
MeanPoint(corners) ==
    << RatMul(RatAdd(RatAdd(corners[1][1], corners[2][1]), RatAdd(corners[3][1], corners[4][1])), <<1, 4>>),
       RatMul(RatAdd(RatAdd(corners[1][2], corners[2][2]), RatAdd(corners[3][2], corners[4][2])), <<1, 4>>) >>

\* np.degrees(np.arctan2(dy, dx)), held as the direction it is the angle of:
\* the primitive integer vector <<dx, dy>> (<<0, 0>> for the zero vector)
ArcTan2Deg(dy, dx) ==
    LET nx == dx[1] * dy[2]
        ny == dy[1] * dx[2]
        g == Gcd(Abs(nx), Abs(ny))
    IN  [atan2 |-> IF g = 0 THEN <<0, 0>> ELSE <<nx \div g, ny \div g>>]

\* np.linalg.norm(b - a), held as the rational it is the square root of
Norm(a, b) ==
    LET dx == RatSub(b[1], a[1])
        dy == RatSub(b[2], a[2])
    IN  [sqrt |-> RatAdd(RatMul(dx, dx), RatMul(dy, dy))]

calculate_alignment_for_design(s, design_rect_mm) ==
    LET r == transform_rect(s, design_rect_mm)
        corners_px == r.val
        bottom_left == corners_px[1]
        bottom_right == corners_px[2]
    IN  IF r.status = "raise" THEN r
        ELSE IF s.image = 0 THEN Raises(s, "AttributeError")
        ELSE Returns(s,
               [design_rect_mm |-> design_rect_mm,
                center_px |-> MeanPoint(corners_px),
                corners_px |-> corners_px,
                angle_deg |-> ArcTan2Deg(RatSub(bottom_right[2], bottom_left[2]),
                                         RatSub(bottom_right[1], bottom_left[1])),
                size_px |-> <<Norm(bottom_left, bottom_right), Norm(bottom_left, corners_px[4])>>,
                image_size |-> ImageSize(s.image)])

\* process(image_path, design_rect_mm, visualize): the stage that raised is
\* the outcome's err; design_rect_mm = None (<<>>) skips the alignment
process(s, jig, image_path, design_rect_mm) ==
    LET r1 == load_image(s, image_path)
        r2 == detect_markers(r1.s)
    IN  IF r1.status = "raise" THEN {r1}
        ELSE IF r2.status = "raise" THEN {r2}
        ELSE UNION {
               IF r3.status = "raise" THEN {r3}
               ELSE IF design_rect_mm = None THEN {Returns(r3.s, None)}
               ELSE {calculate_alignment_for_design(r3.s, design_rect_mm)}
               : r3 \in calculate_homography(r2.s, jig)}

----------------------------------------------------------------------------
(* DesignPlacer: the pixel of a click is taken back to millimetres through  *)
(* the inverse of the homography.                                          *)

\* the homography used as it is, in place of its inverse
InverseHomographyForward(H) == H

\* np.linalg.inv(self.homography): the adjugate over the determinant; the
\* common factor of a homography is of no effect on the points it maps, so
\* the inverse is held normalised like every homography
InverseHomography(H) == MatNormalize(MatAdj(H))

\* cv2.perspectiveTransform(click_px, np.linalg.inv(self.homography))
ToMm(H, point_px) == PerspectiveTransform(InverseHomography(H), point_px)

----------------------------------------------------------------------------
(* One ArucoAligner driven by arbitrary calls *)

AlignerState ==
    [image |-> image, detected_markers |-> detected_markers,
     homography |-> homography, corr |-> corr]

\* the call `op` with argument `arg` ended with outcome o
Call(op, arg, o) ==
    /\ image' = o.s.image
    /\ detected_markers' = o.s.detected_markers
    /\ homography' = o.s.homography
    /\ corr' = o.s.corr
    /\ ret' = [op |-> op, arg |-> arg, status |-> o.status, err |-> o.err, val |-> o.val]
    /\ UNCHANGED jig_config

LoadImage(i) ==
    /\ Call("load_image", i, load_image(AlignerState, i))
    /\ UNCHANGED <<warperVars, workflowVars, controllerVars, sessionVars>>

DetectMarkers ==
    /\ Call("detect_markers", None, detect_markers(AlignerState))
    /\ UNCHANGED <<warperVars, workflowVars, controllerVars, sessionVars>>

CalculateHomography ==
    /\ \E o \in calculate_homography(AlignerState, jig_config) :
          Call("calculate_homography", None, o)
    /\ UNCHANGED <<warperVars, workflowVars, controllerVars, sessionVars>>

TransformPoint(p) ==
    /\ Call("transform_point", p, transform_point(AlignerState, p))
    /\ UNCHANGED <<warperVars, workflowVars, controllerVars, sessionVars>>

TransformRect(r) ==
    /\ Call("transform_rect", r, transform_rect(AlignerState, r))
    /\ UNCHANGED <<warperVars, workflowVars, controllerVars, sessionVars>>

GetBoardBoundsPx ==
    /\ Call("get_board_bounds_px", None, get_board_bounds_px(AlignerState, jig_config))
    /\ UNCHANGED <<warperVars, workflowVars, controllerVars, sessionVars>>

CalculateAlignmentForDesign(r) ==
    /\ Call("calculate_alignment_for_design", r, calculate_alignment_for_design(AlignerState, r))
    /\ UNCHANGED <<warperVars, workflowVars, controllerVars, sessionVars>>

Process(i, r) ==
    /\ \E o \in process(AlignerState, jig_config, i, r) :
          Call("process", <<i, r>>, o)
    /\ UNCHANGED <<warperVars, workflowVars, controllerVars, sessionVars>>

\* values of the DesignWarper and workflow variables while they are not in use
WarperIdle == warper = <<>> /\ wret = <<>>
WorkflowIdle == wf = <<>> /\ pc = "idle" /\ log = <<>> /\ files = <<>> /\ sent = <<>>
ControllerIdle == lb = <<>>
PlacerIdle == placer = <<>>
CaptureIdle == cam = <<>>
JobIdle == job = <<>>
SessionsIdle == PlacerIdle /\ CaptureIdle /\ JobIdle

Init ==
    /\ jig_config \in JigConfigs
    /\ image = NewAligner.image
    /\ detected_markers = NewAligner.detected_markers
    /\ homography = NewAligner.homography
    /\ corr = NewAligner.corr
    /\ ret = [op |-> "__init__", arg |-> None, status |-> "ok", err |-> "", val |-> None]
    /\ WarperIdle
    /\ WorkflowIdle
    /\ ControllerIdle
    /\ SessionsIdle

Next ==
    \/ \E i \in Images : LoadImage(i)
    \/ DetectMarkers
    \/ CalculateHomography
    \/ \E p \in MmPoints : TransformPoint(p)
    \/ \E r \in DesignRects : TransformRect(r)
    \/ GetBoardBoundsPx
    \/ \E r \in DesignRects : CalculateAlignmentForDesign(r)
    \/ \E i \in Images, r \in DesignRects \cup {None} : Process(i, r)

Spec == Init /\ [][Next]_vars

----------------------------------------------------------------------------
(* Claims about the ArucoAligner (specification Spec) *)

ErrInsufficientMarkers == "ValueError: Need at least 4 markers"
ErrNoHomography == "ValueError: Homography not calculated yet"

MatchedIds(jig, detected) == ConfiguredIds(jig) \cap DOMAIN detected

\* C1: whenever fewer than 4 configured markers are matched by the detected
\* markers, calculate_homography (called directly, or reached by process)
\* raises the insufficient-markers error and returns no matrix.
C1_InsufficientMarkersRaise ==
    /\ (/\ ret.op = "calculate_homography"
        /\ Cardinality(MatchedIds(jig_config, detected_markers)) < 4)
       => (ret.status = "raise" /\ ret.err = ErrInsufficientMarkers /\ ret.val = None)
    /\ (/\ ret.op = "process"
        /\ image # 0
        /\ DOMAIN DetectorOutput(image) # {}
        /\ Cardinality(MatchedIds(jig_config, DetectorOutput(image))) < 4)
       => (ret.status = "raise" /\ ret.err = ErrInsufficientMarkers /\ ret.val = None)

\* C1 witness: calculate_homography ran with exactly 3 matched markers
C1_Witness ==
    /\ ret.op = "calculate_homography"
    /\ Cardinality(MatchedIds(jig_config, detected_markers)) = 3
    /\ Len(jig_config.markers) >= 4
    /\ ret.status = "raise"

\* position_mm of the configured marker whose key reads as id
JigPosition(jig, id) ==
    jig.markers[CHOOSE k \in 1..Len(jig.markers) : ParseInt(jig.markers[k].key) = id].position_mm

\* C3: after calculate_homography the correspondence list holds exactly one
\* (mm position, pixel centroid) pair for each id that is configured and
\* detected, nothing else, and with at least 4 pairs the call does not fail
\* for lack of markers.
C3_CorrespondencesAreTheMatchedMarkers ==
    ret.op = "calculate_homography" =>
        /\ \A id \in MatchedIds(jig_config, detected_markers) :
              /\ Cardinality({k \in 1..Len(corr) : corr[k].id = id}) = 1
              /\ \A k \in 1..Len(corr) :
                    corr[k].id = id =>
                        /\ corr[k].mm = JigPosition(jig_config, id)
                        /\ corr[k].px = detected_markers[id]
        /\ \A k \in 1..Len(corr) : corr[k].id \in MatchedIds(jig_config, detected_markers)
        /\ Len(corr) >= 4 => ret.err # ErrInsufficientMarkers

\* C3 witness: a configured marker is missing, an unconfigured one was
\* detected, and the homography was still computed from the other four
C3_Witness ==
    /\ ret.op = "calculate_homography"
    /\ ret.status = "ok"
    /\ ConfiguredIds(jig_config) \ DOMAIN detected_markers # {}
    /\ DOMAIN detected_markers \ ConfiguredIds(jig_config) # {}
    /\ Len(corr) = 4

\* the matrices calculate_homography can produce from image i
FreshHomographies(jig, i) ==
    IF i = 0 \/ DOMAIN DetectorOutput(i) = {} THEN {}
    ELSE LET c == Correspondences(jig, DetectorOutput(i))
         IN  IF Len(c) < 4 THEN {}
             ELSE FindHomography(SrcPoints(c), DstPoints(c)) \ {None, CvError}

TransformOps ==
    {"transform_point", "transform_rect", "get_board_bounds_px", "calculate_alignment_for_design"}

\* C4: every point or rectangle transform that returns a value used a
\* homography computed from the most recently loaded image.
C4_TransformUsesLatestImage ==
    (ret.op \in TransformOps /\ ret.status = "ok") => homography \in FreshHomographies(jig_config, image)

\* C5: after detect_markers has run on an image, detected_markers holds only
\* entries the detector found in that image.
C5_DetectedMarkersFresh ==
    (ret.op = "detect_markers" /\ image # 0) =>
        \A id \in DOMAIN detected_markers :
            /\ id \in DOMAIN DetectorOutput(image)
            /\ detected_markers[id] = DetectorOutput(image)[id]

\* C6: every coordinate-mapping operation invoked while no homography is set
\* raises the no-homography error and returns nothing.
C6_NoHomographyError ==
    (ret.op \in TransformOps /\ homography = None) =>
        (ret.status = "raise" /\ ret.err = ErrNoHomography /\ ret.val = None)

IdentityHomography == << <<1, 0, 0>>, <<0, 1, 0>>, <<0, 0, 1>> >>

\* squared distance of two pixel points
SquaredDistance(a, b) ==
    RatAdd(RatMul(RatSub(b[1], a[1]), RatSub(b[1], a[1])),
           RatMul(RatSub(b[2], a[2]), RatSub(b[2], a[2])))

C19_RectTransformIsFourCorners ==
    (ret.op = "transform_rect" /\ ret.status = "ok") =>
        LET x == ret.arg[1]
            y == ret.arg[2]
            w == ret.arg[3]
            h == ret.arg[4]
        IN  /\ Len(ret.val) = 4
            /\ ret.val[1] = PerspectiveTransform(homography, <<x, y>>)
            /\ ret.val[2] = PerspectiveTransform(homography, <<RatAdd(x, w), y>>)
            /\ ret.val[3] = PerspectiveTransform(homography, <<RatAdd(x, w), RatAdd(y, h)>>)
            /\ ret.val[4] = PerspectiveTransform(homography, <<x, RatAdd(y, h)>>)

\* C19 witness: a rectangle transformed by a homography with perspective:
\* the result is not an axis-aligned box
C19_Witness ==
    /\ ret.op = "transform_rect"
    /\ ret.status = "ok"
    /\ homography[3] # <<0, 0, 1>>
    /\ ret.val # BoundingBoxCorners(ret.val)

\* three points on one line
Collinear(a, b, c) ==
    (b[1] - a[1]) * (c[2] - a[2]) = (b[2] - a[2]) * (c[1] - a[1])

\* four of the correspondences have their mm points in general position
\* (no three on a line), and one homography maps every mm point exactly
\* onto its pixel point: matched correctly, without noise
NoiseFree(c) ==
    \E s \in Samples(Len(c)) :
        LET src == <<c[s[1]].mm, c[s[2]].mm, c[s[3]].mm, c[s[4]].mm>>
            dst == <<c[s[1]].px, c[s[2]].px, c[s[3]].px, c[s[4]].px>>
            H0 == MatNormalize(MatMul(QuadMatrix(dst), MatNormalize(MatAdj(QuadMatrix(src)))))
        IN  /\ \A i, j, k \in 1..4 :
                  (i < j /\ j < k) => ~Collinear(src[i], src[j], src[k])
            /\ MatDet(QuadMatrix(src)) # 0
            /\ MatDet(QuadMatrix(dst)) # 0
            /\ \A k \in 1..Len(c) :
                  LET v == ApplyHomogeneous(H0, c[k].mm)
                  IN  v[3] # 0 /\ v[1] = c[k].px[1] * v[3] /\ v[2] = c[k].px[2] * v[3]

\* | p - q | <= 1e-3 for a rational p and an integer q
WithinMilliPx(p, q) == Abs(1000 * p[1] - 1000 * q * p[2]) <= p[2]

InsideBoard(jig, p) ==
    /\ RatLeq(RatInt(0), p[1]) /\ RatLeq(p[1], RatInt(jig.board_size_mm))
    /\ RatLeq(RatInt(0), p[2]) /\ RatLeq(p[2], RatInt(jig.board_size_mm))

\* C21: under a non-degenerate homography, a mm point inside the board taken
\* to pixels by transform_point and back to mm through the inverse matrix
\* is the point itself.
C21_RoundTrip ==
    (ret.op = "transform_point" /\ ret.status = "ok" /\ MatDet(homography) # 0
     /\ InsideBoard(jig_config, ret.arg)) =>
        ToMm(homography, ret.val) = ret.arg

\* C21 witness: a point with a fractional coordinate taken through a
\* perspective view and back
C21_Witness ==
    /\ ret.op = "transform_point"
    /\ ret.status = "ok"
    /\ MatDet(homography) # 0
    /\ homography[3] # <<0, 0, 1>>
    /\ ret.arg = <<Rat(1005, 10), RatInt(100)>>
    /\ ret.val # ret.arg
    /\ ToMm(homography, ret.val) = ret.arg

----------------------------------------------------------------------------
(* DesignWarper: each method as a function of the object's fields          *)
(*   s = [alignment_data, dpi, design_image, warped_design]                *)
(* and of the files on disk to the fields, the files and the outcome.      *)

\* dpi values of the exports
Dpis == {300, 600}

\* design files: what cv2.imread(path, IMREAD_UNCHANGED) returns
DesignPaths == {"logo.png", "gray.png", "logo.svg", "missing.png"}

IsSvgPath(path) == path = "logo.svg"

ReadDesign(path) ==
    CASE path = "logo.png" -> [w |-> 400, h |-> 300, channels |-> 3]
      [] path = "gray.png" -> [w |-> 64, h |-> 64, channels |-> 1]
      [] OTHER -> None

\* format tokens and format.lower()
Formats == {"png", "PNG", "svg", "pdf"}

Lower(format) ==
    CASE format = "PNG" -> "png"
      [] OTHER -> format

\* DesignWarper.__init__
NewWarper(alignment_data, dpi) ==
    [alignment_data |-> alignment_data, dpi |-> dpi,
     design_image |-> None, warped_design |-> None]

WOutcome(s, fs, status, err, val) ==
    [s |-> s, fs |-> fs, status |-> status, err |-> err, val |-> val]

load_design(s, fs, design_path) ==
    IF IsSvgPath(design_path) THEN WOutcome(s, fs, "raise", "NotImplementedError", None)
    ELSE IF ReadDesign(design_path) = None
    THEN WOutcome([s EXCEPT !.design_image = None], fs, "raise", "ValueError: Could not load design", None)
    ELSE WOutcome([s EXCEPT !.design_image = ReadDesign(design_path)], fs, "ok", "",
                  ReadDesign(design_path))

\* the export size follows the pixel size seen by the camera
MmToPxSqrt(q) ==
    LET n == TruncDiv(q[1], q[2])
        RECURSIVE R(_)
        R(k) == IF (k + 1) * (k + 1) > n THEN k ELSE R(k + 1)
    IN  R(0)

\* the millimetres are truncated before they are scaled
MmToPxTruncatedMm(mm, dpi) == TruncDiv(mm[1], mm[2]) * TruncDiv(dpi * 10, 254)

\* int(mm * self.px_per_mm) with px_per_mm = dpi / 25.4
MmToPx(mm, dpi) == TruncDiv(mm[1] * dpi * 10, mm[2] * 254)

\* the export takes the size_px of the alignment result
ExportSizePxFromCamera(alignment_data, dpi) ==
    << MmToPxSqrt(alignment_data.size_px[1].sqrt), MmToPxSqrt(alignment_data.size_px[2].sqrt) >>

\* (width_px, height_px) of the export
ExportSizePx(alignment_data, dpi) ==
    << MmToPx(alignment_data.design_rect_mm[3], dpi),
       MmToPx(alignment_data.design_rect_mm[4], dpi) >>

create_design_from_text(s, fs, text, size_mm) ==
    LET width_px == MmToPx(size_mm[1], s.dpi)
        height_px == MmToPx(size_mm[2], s.dpi)
        img == [w |-> width_px, h |-> height_px, channels |-> 3]
    IN  IF width_px < 0 \/ height_px < 0
        THEN WOutcome(s, fs, "raise", "ValueError: negative dimensions", None)
        ELSE WOutcome([s EXCEPT !.design_image = img], fs, "ok", "", img)

\* the files on disk: a function from path <<directory, stem, extension>>
\* to content; a write replaces the content of the path
NoFiles == [p \in {} |-> None]

WriteFile(fs, path, content) == (path :> content) @@ fs

\* output_path.parent.mkdir(parents=True, exist_ok=True)
MakeDir(fs, path) ==
    IF <<path[1], "", "">> \in DOMAIN fs THEN fs
    ELSE WriteFile(fs, <<path[1], "", "">>, [kind |-> "dir"])

\* output_path is <<directory, stem, extension>>
export_for_lightburn(s, fs, output_path, format) ==
    LET design_rect_mm == s.alignment_data.design_rect_mm
        width_mm == design_rect_mm[3]
        height_mm == design_rect_mm[4]
        size == ExportSizePx(s.alignment_data, s.dpi)
        width_px == size[1]
        height_px == size[2]
        fs1 == MakeDir(fs, output_path)
        png == [kind |-> "png",
                px |-> <<width_px, height_px>>, dpi |-> <<s.dpi, s.dpi>>,
                mm |-> None, design |-> s.design_image]
        svg == [kind |-> "svg",
                px |-> <<width_px, height_px>>, dpi |-> None,
                mm |-> <<width_mm, height_mm>>, design |-> s.design_image]
    IN  IF s.design_image = None
        THEN WOutcome(s, fs, "raise", "ValueError: No design loaded", None)
        ELSE IF \/ width_px <= 0 \/ height_px <= 0
                \/ s.design_image.w = 0 \/ s.design_image.h = 0
        THEN WOutcome(s, fs1, "raise", "cv2.error", None)
        ELSE IF Lower(format) = "png"
        THEN IF s.design_image.channels = 1
             THEN WOutcome(s, fs1, "raise", "cv2.error", None)
             ELSE WOutcome(s, WriteFile(fs1, output_path, png), "ok", "", output_path)
        ELSE IF Lower(format) = "svg"
        THEN WOutcome(s, WriteFile(fs1, output_path, svg), "ok", "", output_path)
        ELSE WOutcome(s, fs1, "raise", "ValueError: Unsupported format", None)

\* the preview keeps the resampled design as the loaded design
warp_to_alignment_resamples(s, fs, camera_image) ==
    LET warped == [design |-> s.design_image,
                   corners_px |-> s.alignment_data.corners_px,
                   canvas |-> ImageSize(camera_image)]
    IN  IF s.design_image = None
        THEN WOutcome(s, fs, "raise", "ValueError: No design loaded", None)
        ELSE IF s.design_image.w = 0 \/ s.design_image.h = 0 \/ s.design_image.channels = 1
        THEN WOutcome(s, fs, "raise", "cv2.error", None)
        ELSE WOutcome([s EXCEPT !.warped_design = warped,
                                !.design_image = [w |-> ImageSize(camera_image)[1],
                                                  h |-> ImageSize(camera_image)[2],
                                                  channels |-> s.design_image.channels]],
                      fs, "ok", "",
                      [composite_of |-> warped, camera_image |-> camera_image])

\* without a design the preview is the camera image as it is
warp_to_alignment_passthrough(s, fs, camera_image) ==
    LET warped == [design |-> s.design_image,
                   corners_px |-> s.alignment_data.corners_px,
                   canvas |-> ImageSize(camera_image)]
    IN  IF s.design_image = None
        THEN WOutcome(s, fs, "ok", "", [composite_of |-> None, camera_image |-> camera_image])
        ELSE IF s.design_image.w = 0 \/ s.design_image.h = 0 \/ s.design_image.channels = 1
        THEN WOutcome(s, fs, "raise", "cv2.error", None)
        ELSE WOutcome([s EXCEPT !.warped_design = warped], fs, "ok", "",
                      [composite_of |-> warped, camera_image |-> camera_image])

\* the preview: the design warped onto corners_px, composited on the
\* camera image (camera_image is the image id)
warp_to_alignment(s, fs, camera_image) ==
    LET warped == [design |-> s.design_image,
                   corners_px |-> s.alignment_data.corners_px,
                   canvas |-> ImageSize(camera_image)]
    IN  IF s.design_image = None
        THEN WOutcome(s, fs, "raise", "ValueError: No design loaded", None)
        ELSE IF s.design_image.w = 0 \/ s.design_image.h = 0 \/ s.design_image.channels = 1
        THEN WOutcome(s, fs, "raise", "cv2.error", None)
        ELSE WOutcome([s EXCEPT !.warped_design = warped], fs, "ok", "",
                      [composite_of |-> warped, camera_image |-> camera_image])

----------------------------------------------------------------------------
(* Two DesignWarper instances exporting side by side (SpecExport) *)

WarperIds == {1, 2}

\* each instance exports into its own directory
ExportPath(k) == <<IF k = 1 THEN "out1" ELSE "out2", "export", "out">>

\* widths of the design rectangle, in millimetres
ExportWidths ==
    {Rat(t, 10) : t \in 0..MaxSmallTenths} \cup {Rat(254, 10), RatInt(80), RatInt(100)}

ExportRects ==
    {<<RatInt(50), RatInt(50), w, RatInt(80)>> : w \in ExportWidths}
    \cup {MmRect(50, 50, 100, 25)}

\* the camera-observed fields of two alignment results: the mock of
\* test_design_export and a noisier view of the same placement
CameraView(k) ==
    IF k = 1
    THEN [center_px |-> MmPoint(960, 540),
          corners_px |-> <<MmPoint(910, 580), MmPoint(1010, 580), MmPoint(1010, 500), MmPoint(910, 500)>>,
          angle_deg |-> [atan2 |-> <<1, 0>>],
          size_px |-> <<[sqrt |-> RatInt(10000)], [sqrt |-> RatInt(6400)]>>,
          image_size |-> <<1920, 1080>>]
    ELSE [center_px |-> MmPoint(962, 541),
          corners_px |-> <<MmPoint(911, 582), MmPoint(1012, 580), MmPoint(1013, 501), MmPoint(912, 501)>>,
          angle_deg |-> [atan2 |-> <<101, -2>>],
          size_px |-> <<[sqrt |-> RatInt(10205)], [sqrt |-> RatInt(6562)]>>,
          image_size |-> <<1920, 1080>>]

MockAlignment(rect, k) ==
    [design_rect_mm |-> rect,
     center_px |-> CameraView(k).center_px,
     corners_px |-> CameraView(k).corners_px,
     angle_deg |-> CameraView(k).angle_deg,
     size_px |-> CameraView(k).size_px,
     image_size |-> CameraView(k).image_size]

AlignerIdle ==
    /\ jig_config = Jig4
    /\ image = NewAligner.image
    /\ detected_markers = NewAligner.detected_markers
    /\ homography = NewAligner.homography
    /\ corr = NewAligner.corr
    /\ ret = [op |-> "__init__", arg |-> None, status |-> "ok", err |-> "", val |-> None]

WCall(k, op, arg, o) ==
    /\ warper' = [warper EXCEPT ![k] = o.s]
    /\ files' = o.fs
    /\ wret' = [wret EXCEPT ![k] = [op |-> op, arg |-> arg, status |-> o.status,
                                    err |-> o.err, val |-> o.val]]

WLoadDesign(k, path) ==
    /\ WCall(k, "load_design", path, load_design(warper[k], files, path))
    /\ UNCHANGED <<alignerVars, wf, pc, log, sent, controllerVars, sessionVars>>

WCreateDesignFromText(k) ==
    /\ LET r == warper[k].alignment_data.design_rect_mm
       IN  WCall(k, "create_design_from_text", <<r[3], r[4]>>,
                 create_design_from_text(warper[k], files, "TEST", <<r[3], r[4]>>))
    /\ UNCHANGED <<alignerVars, wf, pc, log, sent, controllerVars, sessionVars>>

WExport(k, format) ==
    /\ WCall(k, "export_for_lightburn", format,
             export_for_lightburn(warper[k], files, ExportPath(k), format))
    /\ UNCHANGED <<alignerVars, wf, pc, log, sent, controllerVars, sessionVars>>

InitExport ==
    /\ AlignerIdle
    /\ \E r1 \in ExportRects, d1 \in Dpis, d2 \in Dpis :
       \E r2 \in {r1, MmRect(50, 50, 100, 80)} :
          warper = [k \in WarperIds |->
                      IF k = 1 THEN NewWarper(MockAlignment(r1, 1), d1)
                      ELSE NewWarper(MockAlignment(r2, 2), d2)]
    /\ wret = [k \in WarperIds |->
                 [op |-> "__init__", arg |-> None, status |-> "ok", err |-> "", val |-> None]]
    /\ wf = <<>> /\ pc = "idle" /\ log = <<>> /\ files = NoFiles /\ sent = <<>>
    /\ ControllerIdle
    /\ SessionsIdle

NextExport ==
    \/ \E k \in WarperIds, path \in {"logo.png", "gray.png"} : WLoadDesign(k, path)
    \/ \E k \in WarperIds : WCreateDesignFromText(k)
    \/ \E k \in WarperIds, format \in {"png", "svg", "pdf"} : WExport(k, format)

SpecExport == InitExport /\ [][NextExport]_vars

----------------------------------------------------------------------------
(* Claims about the export (specification SpecExport) *)

\* the file export k wrote, once export_for_lightburn has returned
Exported(k) ==
    /\ wret[k].op = "export_for_lightburn"
    /\ wret[k].status = "ok"

ExportFile(k) == files[ExportPath(k)]

\* round(mm * dpi / 25.4)
RoundMmToPx(mm, dpi) == RoundDiv(mm[1] * dpi * 10, mm[2] * 254)

\* C8: a successful export resamples the design to exactly
\* round(width_mm * dpi / 25.4) by round(height_mm * dpi / 25.4) pixels.
C8_ExportSizeIsRounded ==
    \A k \in WarperIds :
        Exported(k) =>
            ExportFile(k).px =
                << RoundMmToPx(warper[k].alignment_data.design_rect_mm[3], warper[k].dpi),
                   RoundMmToPx(warper[k].alignment_data.design_rect_mm[4], warper[k].dpi) >>

\* what an export declares about its size: pixels, DPI tag, millimetres
Declared(f) == [kind |-> f.kind, px |-> f.px, dpi |-> f.dpi, mm |-> f.mm]

\* C9: two exports in the same encoding, of the same design, from alignment
\* results with the same design_rect_mm and dpi but different camera-observed
\* fields have the same pixel dimensions and the same declared size.
C9_ExportIgnoresCameraFields ==
    (/\ Exported(1) /\ Exported(2)
     /\ warper[1].alignment_data.design_rect_mm = warper[2].alignment_data.design_rect_mm
     /\ warper[1].dpi = warper[2].dpi
     /\ ExportFile(1).kind = ExportFile(2).kind)
    => Declared(ExportFile(1)) = Declared(ExportFile(2))

\* C9 witness: both exports done from the same rectangle and dpi, with
\* camera-observed fields that all differ
C9_Witness ==
    /\ Exported(1) /\ Exported(2)
    /\ warper[1].alignment_data.design_rect_mm = warper[2].alignment_data.design_rect_mm
    /\ warper[1].dpi = warper[2].dpi
    /\ ExportFile(1).kind = ExportFile(2).kind
    /\ warper[1].alignment_data.size_px # warper[2].alignment_data.size_px
    /\ warper[1].alignment_data.corners_px # warper[2].alignment_data.corners_px
    /\ warper[1].alignment_data.center_px # warper[2].alignment_data.center_px
    /\ warper[1].alignment_data.angle_deg # warper[2].alignment_data.angle_deg

\* | p / dpi * 25.4 - mm | <= 0.1, for mm = n/d
WithinTenthMm(p, mm, dpi) ==
    Abs(p * 254 * mm[2] - 10 * mm[1] * dpi) <= dpi * mm[2]

\* C10: for dpi 300 or 600, each pixel count of an exported raster gives back
\* the requested millimetres within 0.1 mm when divided by the DPI tag.
C10_PixelCountReproducesMm ==
    \A k \in WarperIds :
        (Exported(k) /\ warper[k].dpi \in {300, 600}) =>
            /\ WithinTenthMm(ExportFile(k).px[1], warper[k].alignment_data.design_rect_mm[3], warper[k].dpi)
            /\ WithinTenthMm(ExportFile(k).px[2], warper[k].alignment_data.design_rect_mm[4], warper[k].dpi)

\* C10 witness: a PNG exported at 300 dpi whose width is not a whole number
\* of pixels (80 mm is 944.88 px)
C10_Witness ==
    /\ Exported(1)
    /\ ExportFile(1).kind = "png"
    /\ warper[1].dpi = 300
    /\ warper[1].alignment_data.design_rect_mm[3] = RatInt(80)
    /\ ExportFile(1).dpi = <<300, 300>>

----------------------------------------------------------------------------
(* One DesignWarper driven by arbitrary calls (SpecWarper): the instance is *)
(* warper[1], it exports to ExportPath(1), whose directory may or may not   *)
(* exist beforehand.                                                        *)

WWarpToAlignment(k, camera_image) ==
    /\ WCall(k, "warp_to_alignment", camera_image,
             warp_to_alignment(warper[k], files, camera_image))
    /\ UNCHANGED <<alignerVars, wf, pc, log, sent, controllerVars, sessionVars>>

InitWarper ==
    /\ AlignerIdle
    /\ \E r \in ExportRects, d \in Dpis : warper = <<NewWarper(MockAlignment(r, 1), d)>>
    /\ wret = <<[op |-> "__init__", arg |-> None, status |-> "ok", err |-> "", val |-> None]>>
    /\ wf = <<>> /\ pc = "idle" /\ log = <<>> /\ sent = <<>>
    /\ files \in {NoFiles, MakeDir(NoFiles, ExportPath(1))}
    /\ ControllerIdle
    /\ SessionsIdle

NextWarper ==
    \/ \E path \in DesignPaths : WLoadDesign(1, path)
    \/ WCreateDesignFromText(1)
    \/ \E format \in Formats : WExport(1, format)
    \/ \E i \in {1, 2} : WWarpToAlignment(1, i)

SpecWarper == InitWarper /\ [][NextWarper]_vars

----------------------------------------------------------------------------
(* Claims about the DesignWarper (specification SpecWarper) *)

ErrNoDesign == "ValueError: No design loaded"
ErrUnsupportedFormat == "ValueError: Unsupported format"

\* C15: export_for_lightburn and warp_to_alignment called while no design is
\* loaded raise the missing-design error, write no file and leave the
\* warper's fields as they were.
C15_MissingDesignError ==
    [][(/\ warper[1].design_image = None
        /\ wret'[1].op \in {"export_for_lightburn", "warp_to_alignment"})
       => (/\ wret'[1].status = "raise"
           /\ wret'[1].err = ErrNoDesign
           /\ files' = files
           /\ warper' = warper)]_vars

\* C15 witness: an export was asked for after a design failed to load, with
\* no export directory on disk: it raised, and the disk is still empty
C15_Witness ==
    /\ wret[1].op = "export_for_lightburn"
    /\ wret[1].status = "raise"
    /\ wret[1].err = ErrNoDesign
    /\ warper[1].design_image = None
    /\ files = NoFiles

\* C16: export_for_lightburn called with a design loaded and a format token
\* that is neither png nor svg raises the unsupported-format error and
\* changes neither the files on disk nor the warper's fields.
C16_UnsupportedFormatNoEffect ==
    [][(/\ warper[1].design_image # None
        /\ wret'[1].op = "export_for_lightburn"
        /\ Lower(wret'[1].arg) \notin {"png", "svg"})
       => (/\ wret'[1].status = "raise"
           /\ wret'[1].err = ErrUnsupportedFormat
           /\ files' = files
           /\ warper' = warper)]_vars

\* C22: a preview leaves the loaded design, the alignment data, the dpi and
\* every file written so far as they were, and an export made after it
\* writes, in every format, what the export made in its place would have
\* written.
C22_PreviewNeverFeedsExport ==
    [][wret'[1].op = "warp_to_alignment" =>
          /\ warper'[1].design_image = warper[1].design_image
          /\ warper'[1].alignment_data = warper[1].alignment_data
          /\ warper'[1].dpi = warper[1].dpi
          /\ files' = files
          /\ \A format \in Formats :
                LET without == export_for_lightburn(warper[1], files, ExportPath(1), format)
                    after == export_for_lightburn(warper'[1], files', ExportPath(1), format)
                IN  /\ after.status = without.status
                    /\ after.err = without.err
                    /\ after.fs = without.fs]_vars

\* C22 witness: an export made after a preview, of the size the mm
\* rectangle gives and with the design as it was loaded
C22_Witness ==
    /\ wret[1].op = "export_for_lightburn"
    /\ wret[1].status = "ok"
    /\ warper[1].warped_design # None
    /\ ExportPath(1) \in DOMAIN files
    /\ files[ExportPath(1)].px = ExportSizePx(warper[1].alignment_data, warper[1].dpi)
    /\ files[ExportPath(1)].design = warper[1].design_image
    /\ warper[1].warped_design.design = warper[1].design_image

----------------------------------------------------------------------------
(* LightBurnController: commands are UDP datagrams, replies are awaited on  *)
(* the same socket for at most `timeout` seconds.                           *)
(* A datagram is a sequence of bytes, each byte written as the character    *)
(* it encodes; "xFF" is the byte 0xFF, which no UTF-8 text contains.        *)

Datagrams ==
    { <<"O", "K">>, <<"o", "k">>, <<"E", "R", "R">>,
      <<"N", "O", "T", " ", "O", "K">>, <<" ", "O", "K", " ">>, <<"xFF">> }

\* what sock.recvfrom(1024) ends with: a datagram, or socket.timeout (None)
Replies == {None} \cup Datagrams

\* bytes.decode('utf-8') succeeds
ValidUtf8(bytes) == \A k \in 1..Len(bytes) : bytes[k] # "xFF"

\* str.strip()
RECURSIVE Strip(_)
Strip(text) ==
    IF text = <<>> THEN text
    ELSE IF Head(text) = " " THEN Strip(Tail(text))
    ELSE IF text[Len(text)] = " " THEN Strip(SubSeq(text, 1, Len(text) - 1))
    ELSE text

COutcome(status, err, val) == [status |-> status, err |-> err, val |-> val]

\* send_command from the end of recvfrom on: the reply text, None on timeout
send_command(received) ==
    IF received = None THEN COutcome("ok", "", None)
    ELSE IF ~ValidUtf8(received) THEN COutcome("raise", "UnicodeDecodeError", None)
    ELSE COutcome("ok", "", Strip(received))

\* reply is not None and 'OK' in reply
ReplyOK(reply) ==
    /\ reply # None
    /\ \E k \in 1..(Len(reply) - 1) : reply[k] = "O" /\ reply[k + 1] = "K"

\* operations of the controller and their arguments
ControllerOps == {"ping", "get_status", "load_file", "start_job", "close_file"}

\* the command an operation sends; None when it returns without sending
\* (load_file on a path that does not exist)
CommandOf(op, arg, fs) ==
    CASE op = "ping" -> [verb |-> "PING", uri |-> None]
      [] op = "get_status" -> [verb |-> "STATUS", uri |-> None]
      [] op = "start_job" -> [verb |-> "START", uri |-> None]
      [] op = "close_file" -> [verb |-> IF arg.force THEN "FORCECLOSE" ELSE "CLOSE", uri |-> None]
      [] op = "load_file" ->
            IF arg.file_path \notin DOMAIN fs THEN None
            ELSE [verb |-> IF arg.force THEN "FORCELOAD" ELSE "LOADFILE", uri |-> arg.file_path]

\* what the operation returns, given what recvfrom ended with
OpResult(op, received) ==
    LET r == send_command(received)
    IN  IF r.status = "raise" THEN r
        ELSE IF op = "get_status" THEN r
        ELSE COutcome("ok", "", ReplyOK(r.val))

\* an operation run to its end: the command sent (None if none) and the result
ControllerCall(op, arg, fs, received) ==
    LET cmd == CommandOf(op, arg, fs)
    IN  IF cmd = None THEN [cmd |-> None, result |-> COutcome("ok", "", FALSE)]
        ELSE [cmd |-> cmd, result |-> OpResult(op, received)]

----------------------------------------------------------------------------
(* One LightBurnController driven by arbitrary calls, with the wait for the *)
(* reply stepped in time (SpecController).                                  *)
(*   lb = [listener, op, arg, cmd, phase, waited, received, status, err,    *)
(*         val, text]: whether a process answers the commands, the          *)
(*         operation in progress, the command it sent, "recvfrom" while it  *)
(*         waits and for how long, what recvfrom ended with, and the        *)
(*         operation's result: the boolean it returned (val) or, for        *)
(*         get_status, the reply it returned (text).                        *)

\* timeout=2.0 seconds, in steps of half a second
TimeoutTicks == 4

\* the socket is blocking: recvfrom never times out
TimedOutNever(waited) == FALSE

\* sock.settimeout(self.timeout): recvfrom raises socket.timeout once the
\* wait has lasted the timeout
TimedOut(waited) == waited >= TimeoutTicks

\* files a load_file can name
DesignFile == <<"output", "aligned_design", "png">>
MissingFile == <<"output", "missing", "png">>

ControllerArgs(op) ==
    CASE op = "load_file" -> [file_path : {DesignFile, MissingFile}, force : BOOLEAN]
      [] op = "close_file" -> [force : BOOLEAN]
      [] OTHER -> {None}

NewController(listener) ==
    [listener |-> listener, op |-> "__init__", arg |-> None, cmd |-> None,
     phase |-> "idle", waited |-> 0, received |-> None,
     status |-> "ok", err |-> "", val |-> FALSE, text |-> None]

\* the operation returns with outcome r
CReturn(c, received, r) ==
    [c EXCEPT !.phase = "returned", !.received = received,
              !.status = r.status, !.err = r.err,
              !.val = (r.status = "ok" /\ c.op # "get_status" /\ r.val),
              !.text = IF c.op = "get_status" THEN r.val ELSE None]

\* an operation is called: it sends its command and waits for the reply, or
\* returns False without sending
CCall(op, arg) ==
    /\ lb.phase \in {"idle", "returned"}
    /\ LET cmd == CommandOf(op, arg, files)
           c == [lb EXCEPT !.op = op, !.arg = arg, !.cmd = cmd, !.waited = 0,
                           !.received = None, !.status = "ok", !.err = "", !.val = FALSE,
                           !.text = None]
       IN  lb' = IF cmd = None
                 THEN CReturn(c, None, COutcome("ok", "", FALSE))
                 ELSE [c EXCEPT !.phase = "recvfrom"]
    /\ UNCHANGED <<alignerVars, warperVars, workflowVars, sessionVars>>

\* half a second passes in recvfrom
CTick ==
    /\ lb.phase = "recvfrom"
    /\ lb.waited < TimeoutTicks
    /\ lb' = [lb EXCEPT !.waited = lb.waited + 1]
    /\ UNCHANGED <<alignerVars, warperVars, workflowVars, sessionVars>>

\* recvfrom raises socket.timeout: send_command returns None
CTimeout ==
    /\ lb.phase = "recvfrom"
    /\ TimedOut(lb.waited)
    /\ lb' = CReturn(lb, None, OpResult(lb.op, None))
    /\ UNCHANGED <<alignerVars, warperVars, workflowVars, sessionVars>>

\* a datagram arrives before the timeout
CReceive(datagram) ==
    /\ lb.phase = "recvfrom"
    /\ lb.listener
    /\ lb.waited < TimeoutTicks
    /\ lb' = CReturn(lb, datagram, OpResult(lb.op, datagram))
    /\ UNCHANGED <<alignerVars, warperVars, workflowVars, sessionVars>>

InitController ==
    /\ AlignerIdle
    /\ WarperIdle
    /\ wf = <<>> /\ pc = "idle" /\ log = <<>> /\ sent = <<>>
    /\ files \in {NoFiles, WriteFile(NoFiles, DesignFile, [kind |-> "png"])}
    /\ \E listener \in BOOLEAN : lb = NewController(listener)
    /\ SessionsIdle

NextController ==
    \/ \E op \in ControllerOps : \E arg \in ControllerArgs(op) : CCall(op, arg)
    \/ CTick
    \/ CTimeout
    \/ \E datagram \in Datagrams : CReceive(datagram)

SpecController == InitController /\ [][NextController]_vars

\* time passes, and a timeout that is due fires
SpecControllerFair == SpecController /\ WF_vars(CTick) /\ WF_vars(CTimeout)

----------------------------------------------------------------------------
(* Claims about the controller (SpecController, SpecControllerFair) *)

\* C13: PING, LOADFILE/FORCELOAD, START and CLOSE/FORCECLOSE return success
\* exactly when a reply was received that contains the bytes "OK"; a timeout
\* or any other reply gives failure, and the operation never raises.
C13_SuccessIffReplyContainsOK ==
    (lb.phase = "returned" /\ lb.op \in {"ping", "load_file", "start_job", "close_file"}) =>
        /\ lb.status = "ok"
        /\ lb.val = (/\ lb.cmd # None
                     /\ lb.received # None
                     /\ \E k \in 1..(Len(lb.received) - 1) :
                           lb.received[k] = "O" /\ lb.received[k + 1] = "K")

\* C14: a PING that no listener ever answers returns failure when the
\* timeout has elapsed, and never waits longer than the timeout.
C14_PingTerminates ==
    /\ [](lb.phase = "recvfrom" => lb.waited <= TimeoutTicks)
    /\ [](IF lb.op = "ping" /\ lb.phase = "returned" /\ ~lb.listener
           THEN lb.status = "ok" /\ lb.val = FALSE /\ lb.waited = TimeoutTicks
           ELSE TRUE)
    /\ ((lb.op = "ping" /\ lb.phase = "recvfrom" /\ ~lb.listener)
        ~> (lb.op = "ping" /\ lb.phase = "returned"))

\* C14 witness: a PING without listener returned failure after the timeout
C14_Witness ==
    /\ lb.op = "ping"
    /\ lb.phase = "returned"
    /\ ~lb.listener
    /\ lb.waited = TimeoutTicks
    /\ lb.received = None
    /\ lb.val = FALSE

----------------------------------------------------------------------------
(* AlignmentWorkflow.run_complete_workflow, one request of one workflow     *)
(* object as main() runs it, stepped call by call (SpecWorkflow).           *)
(*   wf  = the workflow's fields, the arguments of the request, its         *)
(*         pending alignment data and its result                            *)
(*   pc  = the call the request is about to make                            *)
(*   log = the calls made so far, each with how it ended                    *)
(*   sent = the UDP commands sent to LightBurn, each with its reply         *)
(* The request's ArucoAligner is the aligner variables, its DesignWarper    *)
(* is warper[1].                                                            *)

\* files of the request: the image given on the command line, and the
\* files the workflow writes under output_dir
InputPath == <<"input", "board", "jpg">>
OutputPath(stem, ext) == <<"output", stem, ext>>
SnapshotPath == OutputPath("camera_snapshot", "jpg")
AlignmentJsonPath == OutputPath("alignment_data", "json")
PreviewPath == OutputPath("preview", "jpg")

\* Path(image_path).parent / f"{Path(image_path).stem}_aligned.jpg"
VisPath(image_path) ==
    << image_path[1],
       IF image_path[2] = "camera_snapshot" THEN "camera_snapshot_aligned" ELSE "board_aligned",
       "jpg" >>

\* cv2.imread(path): the image stored at path; a missing file reads as None
\* like an unreadable one (image 5)
ImageAt(fs, path) ==
    IF path \in DOMAIN fs /\ fs[path].kind = "image" THEN fs[path].id ELSE 5

\* what the disk holds before the request: the input image or nothing, and
\* possibly the results of an earlier run in output_dir
StaleOutput ==
    WriteFile(WriteFile(MakeDir(NoFiles, AlignmentJsonPath),
                        AlignmentJsonPath, [kind |-> "json", data |-> None]),
              OutputPath("aligned_design", "png"),
              [kind |-> "png", px |-> <<1, 1>>, dpi |-> <<300, 300>>, mm |-> None,
               design |-> [w |-> 1, h |-> 1, channels |-> 3]])

PriorDisks ==
    {NoFiles}
    \cup {WriteFile(NoFiles, InputPath, [kind |-> "image", id |-> i]) : i \in Images}
    \cup {WriteFile(StaleOutput, InputPath, [kind |-> "image", id |-> i]) : i \in {1, 3}}

\* AlignmentWorkflow.__init__(dpi=300)
DefaultDpi == 300

NewWorkflow(dpi) ==
    [dpi |-> dpi, camera_image_path |-> None, alignment_data |-> None, export_path |-> None,
     args |-> None, local_alignment |-> None, disk_before |-> None,
     result |-> [status |-> "none", err |-> "", val |-> None]]

\* arguments of a request
DesignArgs ==
    {[text |-> "TEST", design_path |-> ""], [text |-> "", design_path |-> ""]}
    \cup {[text |-> "", design_path |-> p] : p \in DesignPaths}

\* use_camera, or an image path, or neither; auto_start only matters with
\* send_to_lb
RequestArgs ==
    {a \in [design_rect_mm : DesignRects \cup {None},
            design : DesignArgs,
            format : {"png", "svg", "pdf"},
            use_camera : BOOLEAN,
            camera_image_path : {None, InputPath},
            send_to_lb : BOOLEAN,
            auto_start : BOOLEAN] :
        /\ a.use_camera => a.camera_image_path = None
        /\ a.auto_start => a.send_to_lb}

WfLog(stage, status, err) ==
    log' = Append(log, [stage |-> stage, status |-> status, err |-> err])

\* an exception also discards the alignment result of the request
WfRaisedRollback(w, err) ==
    [w EXCEPT !.result = [status |-> "raise", err |-> err, val |-> None],
              !.alignment_data = None]

\* the request ends: an exception leaves run_complete_workflow, or it returns
WfRaised(w, err) == [w EXCEPT !.result = [status |-> "raise", err |-> err, val |-> None]]
WfReturned(w, val) == [w EXCEPT !.result = [status |-> "ok", err |-> "", val |-> val]]

\* run_complete_workflow is entered; step 1 picks the camera image
WfRun(a) ==
    /\ pc = "idle"
    /\ LET w == [wf EXCEPT !.args = a, !.disk_before = files]
       IN  IF a.use_camera
           THEN wf' = w /\ pc' = "capture"
           ELSE IF a.camera_image_path # None
           THEN /\ wf' = [w EXCEPT !.camera_image_path = a.camera_image_path]
                /\ pc' = "load_image"
           ELSE /\ wf' = WfRaised(w, "ValueError: Must provide camera image or enable camera capture")
                /\ pc' = "done"
    /\ UNCHANGED <<alignerVars, warperVars, log, files, sent, controllerVars, sessionVars>>

\* what the camera and the operator do during capture_camera_image
CaptureEvents ==
    {[kind |-> k, frame |-> 0] : k \in {"not_opened", "read_failed", "esc"}}
    \cup {[kind |-> "space", frame |-> i] : i \in Images \ {5}}

\* capture_camera_image with its result never checked: step 2 follows
WfCaptureFallsThrough(ev) ==
    /\ pc = "capture"
    /\ IF ev.kind = "not_opened"
       THEN /\ wf' = WfRaised(wf, "RuntimeError: Could not open camera")
            /\ WfLog("capture", "raise", "RuntimeError: Could not open camera")
            /\ pc' = "done"
            /\ UNCHANGED files
       ELSE IF ev.kind = "space"
       THEN /\ files' = WriteFile(files, SnapshotPath, [kind |-> "image", id |-> ev.frame])
            /\ wf' = [wf EXCEPT !.camera_image_path = SnapshotPath]
            /\ WfLog("capture", "ok", "")
            /\ pc' = "load_image"
       ELSE /\ wf' = [wf EXCEPT !.camera_image_path = None]
            /\ WfLog("capture", "cancelled", "")
            /\ pc' = "load_image"
            /\ UNCHANGED files
    /\ UNCHANGED <<alignerVars, warperVars, sent, controllerVars, sessionVars>>

\* capture_camera_image and the check of its result
WfCapture(ev) ==
    /\ pc = "capture"
    /\ IF ev.kind = "not_opened"
       THEN /\ wf' = WfRaised(wf, "RuntimeError: Could not open camera")
            /\ WfLog("capture", "raise", "RuntimeError: Could not open camera")
            /\ pc' = "done"
            /\ UNCHANGED files
       ELSE IF ev.kind = "space"
       THEN /\ files' = WriteFile(files, SnapshotPath, [kind |-> "image", id |-> ev.frame])
            /\ wf' = [wf EXCEPT !.camera_image_path = SnapshotPath]
            /\ WfLog("capture", "ok", "")
            /\ pc' = "load_image"
       ELSE /\ wf' = WfReturned(wf, None)
            /\ WfLog("capture", "cancelled", "")
            /\ pc' = "done"
            /\ UNCHANGED files
    /\ UNCHANGED <<alignerVars, warperVars, sent, controllerVars, sessionVars>>

\* one call of process on the request's aligner: it ended with outcome o;
\* an exception leaves process, detect_alignment and run_complete_workflow
WfAlignerStep(stage, arg, o, w, next) ==
    /\ Call(stage, arg, o)
    /\ WfLog(stage, o.status, o.err)
    /\ IF o.status = "raise"
       THEN wf' = WfRaised(wf, o.err) /\ pc' = "done"
       ELSE wf' = w /\ pc' = next
    /\ UNCHANGED <<warperVars, files, sent, controllerVars, sessionVars>>

\* detect_alignment: a new ArucoAligner; process: self.load_image(image_path)
WfLoadImage ==
    /\ pc = "load_image"
    /\ WfAlignerStep("load_image", wf.camera_image_path,
                     load_image(NewAligner, ImageAt(files, wf.camera_image_path)),
                     wf, "detect_markers")

\* process: self.detect_markers()
WfDetectMarkers ==
    /\ pc = "detect_markers"
    /\ WfAlignerStep("detect_markers", None, detect_markers(AlignerState), wf,
                     "calculate_homography")

\* process: self.calculate_homography()
WfCalculateHomography ==
    /\ pc = "calculate_homography"
    /\ \E o \in calculate_homography(AlignerState, jig_config) :
          WfAlignerStep("calculate_homography", None, o, wf, "calculate_alignment")

\* process: if design_rect_mm: alignment_data = calculate_alignment_for_design
WfCalculateAlignment ==
    /\ pc = "calculate_alignment"
    /\ IF wf.args.design_rect_mm = None
       THEN /\ pc' = "visualize"
            /\ UNCHANGED <<alignerVars, warperVars, wf, log, files, sent, controllerVars, sessionVars>>
       ELSE LET o == calculate_alignment_for_design(AlignerState, wf.args.design_rect_mm)
            IN  WfAlignerStep("calculate_alignment", wf.args.design_rect_mm, o,
                              [wf EXCEPT !.local_alignment = o.val], "visualize")

\* process: if visualize: visualize_detection(vis_path, design_rect_mm)
WfVisualize ==
    /\ pc = "visualize"
    /\ files' = WriteFile(files, VisPath(wf.camera_image_path),
                          [kind |-> "vis", image |-> image, markers |-> detected_markers,
                           board |-> get_board_bounds_px(AlignerState, jig_config).val,
                           design_rect_mm |-> wf.args.design_rect_mm])
    /\ WfLog("visualize", "ok", "")
    /\ pc' = "save_alignment"
    /\ UNCHANGED <<alignerVars, warperVars, wf, sent, controllerVars, sessionVars>>

\* detect_alignment: json.dump(alignment_data); run_complete_workflow:
\* self.alignment_data = ...; if self.alignment_data is None: return None
WfSaveAlignment ==
    /\ pc = "save_alignment"
    /\ files' = WriteFile(files, AlignmentJsonPath,
                          [kind |-> "json", data |-> wf.local_alignment])
    /\ WfLog("save_alignment", "ok", "")
    /\ IF wf.local_alignment = None
       THEN /\ wf' = WfReturned([wf EXCEPT !.alignment_data = None], None)
            /\ pc' = "done"
       ELSE /\ wf' = [wf EXCEPT !.alignment_data = wf.local_alignment]
            /\ pc' = "load_design"
    /\ UNCHANGED <<alignerVars, warperVars, sent, controllerVars, sessionVars>>

WfExportPath == OutputPath("aligned_design", wf.args.format)

\* one call on the request's DesignWarper ended with outcome o
WfWarperStep(stage, o, w, next) ==
    /\ WfLog(stage, o.status, o.err)
    /\ IF o.status = "raise"
       THEN wf' = WfRaised(wf, o.err) /\ pc' = "done"
       ELSE wf' = w /\ pc' = next
    /\ UNCHANGED <<alignerVars, sent, controllerVars, sessionVars>>

\* warp_and_export: DesignWarper(alignment_data, dpi); the design is
\* rendered from text, or loaded, or missing
WfLoadDesign ==
    /\ pc = "load_design"
    /\ LET w0 == NewWarper(wf.alignment_data, wf.dpi)
           design == wf.args.design
           rect == wf.alignment_data.design_rect_mm
           o == IF design.text # ""
                THEN create_design_from_text(w0, files, design.text, <<rect[3], rect[4]>>)
                ELSE IF design.design_path # ""
                THEN load_design(w0, files, design.design_path)
                ELSE WOutcome(w0, files, "raise",
                              "ValueError: Must provide either design_path or text", None)
       IN  /\ warper' = <<o.s>>
           /\ wret' = <<[op |-> "load_design", arg |-> design, status |-> o.status,
                         err |-> o.err, val |-> o.val]>>
           /\ files' = o.fs
           /\ WfWarperStep("load_design", o, wf, "export")

\* warp_and_export: warper.export_for_lightburn(export_path, format)
WfExport ==
    /\ pc = "export"
    /\ LET o == export_for_lightburn(warper[1], files, WfExportPath, wf.args.format)
       IN  /\ WCall(1, "export_for_lightburn", wf.args.format, o)
           /\ WfWarperStep("export", o, wf, "preview")

\* after a command of send_to_lightburn succeeded or failed, whether the
\* next command is sent
SendContinuesAlways(success) == TRUE

SendContinues(success) == success

\* warp_and_export: the preview, when the camera image can be read; then
\* run_complete_workflow: self.export_path = ..., and step 4 if send_to_lb
WfPreview ==
    /\ pc = "preview"
    /\ LET camera_img == ImageAt(files, wf.camera_image_path)
           o == IF wf.camera_image_path # None /\ wf.camera_image_path \in DOMAIN files
                   /\ ImageReadable(camera_img)
                THEN warp_to_alignment(warper[1], files, camera_img)
                ELSE WOutcome(warper[1], files, "skipped", "", None)
           fs == IF o.status = "ok"
                 THEN WriteFile(o.fs, PreviewPath, [kind |-> "preview", frame |-> o.val])
                 ELSE o.fs
           w == [wf EXCEPT !.export_path = WfExportPath]
       IN  /\ WCall(1, "warp_to_alignment", camera_img, [o EXCEPT !.fs = fs])
           /\ IF wf.args.send_to_lb
              THEN WfWarperStep("preview", o, w, "ping")
              ELSE WfWarperStep("preview", o, WfReturned(w, WfExportPath), "done")

\* controller.send_command(command) got this reply
WfSend(verb, arg, reply) ==
    sent' = Append(sent, [verb |-> verb, arg |-> arg, reply |-> reply])

\* a failed send is fatal to the request
WfSendReturnsFatal == wf' = WfRaised(wf, "RuntimeError: send_to_lightburn failed") /\ pc' = "done"

\* send_to_lightburn returns; its result is only reported
WfSendReturns == wf' = WfReturned(wf, wf.export_path) /\ pc' = "done"

\* one controller operation of send_to_lightburn ran to its end on what
\* recvfrom ended with; an exception leaves send_to_lightburn and
\* run_complete_workflow; `more` says whether a further command follows
\* a success
WfDeviceStep(stage, op, arg, received, more, next) ==
    LET c == ControllerCall(op, arg, files, received)
        r == c.result
    IN  /\ IF c.cmd = None
           THEN UNCHANGED sent
           ELSE WfSend(c.cmd.verb, c.cmd.uri, received)
        /\ WfLog(stage,
                 IF r.status = "raise" THEN "raise" ELSE IF r.val THEN "ok" ELSE "fail",
                 r.err)
        /\ IF r.status = "raise"
           THEN wf' = WfRaised(wf, r.err) /\ pc' = "done"
           ELSE IF SendContinues(r.val) /\ more
           THEN pc' = next /\ UNCHANGED wf
           ELSE WfSendReturns
        /\ UNCHANGED <<alignerVars, warperVars, files, controllerVars, sessionVars>>

\* send_to_lightburn: if not controller.ping(): return False
WfPing(received) ==
    /\ pc = "ping"
    /\ WfDeviceStep("ping", "ping", None, received, TRUE, "load_file")

\* send_to_lightburn: if not controller.load_file(file_path, force=True):
\* return False; then start_job only if auto_start
WfLoadFile(received) ==
    /\ pc = "load_file"
    /\ WfDeviceStep("load_file", "load_file", [file_path |-> wf.export_path, force |-> TRUE],
                    received, wf.args.auto_start, "start_job")

\* send_to_lightburn: controller.start_job(), its result unused
WfStartJob(received) ==
    /\ pc = "start_job"
    /\ WfDeviceStep("start_job", "start_job", None, received, FALSE, "done")

InitWorkflow ==
    /\ jig_config \in JigConfigs
    /\ image = NewAligner.image
    /\ detected_markers = NewAligner.detected_markers
    /\ homography = NewAligner.homography
    /\ corr = NewAligner.corr
    /\ ret = [op |-> "__init__", arg |-> None, status |-> "ok", err |-> "", val |-> None]
    /\ WarperIdle
    /\ wf = NewWorkflow(DefaultDpi)
    /\ \E disk \in PriorDisks : files = MakeDir(disk, OutputPath("", ""))
    /\ pc = "idle"
    /\ log = <<>>
    /\ sent = <<>>
    /\ ControllerIdle
    /\ SessionsIdle

NextWorkflow ==
    \/ \E a \in RequestArgs : WfRun(a)
    \/ \E ev \in CaptureEvents : WfCapture(ev)
    \/ WfLoadImage
    \/ WfDetectMarkers
    \/ WfCalculateHomography
    \/ WfCalculateAlignment
    \/ WfVisualize
    \/ WfSaveAlignment
    \/ WfLoadDesign
    \/ WfExport
    \/ WfPreview
    \/ \E reply \in Replies : WfPing(reply)
    \/ \E reply \in Replies : WfLoadFile(reply)
    \/ \E reply \in Replies : WfStartJob(reply)

SpecWorkflow == InitWorkflow /\ [][NextWorkflow]_vars

----------------------------------------------------------------------------
(* Claims about the workflow (specification SpecWorkflow) *)

ErrHomographyFailed == "ValueError: Failed to calculate homography"

WfStageRan(stage) == \E k \in 1..Len(log) : log[k].stage = stage

WfStageOk(stage) == \E k \in 1..Len(log) : log[k].stage = stage /\ log[k].status = "ok"

\* the homography stage of the request has run and was given fewer than 4
\* matched correspondences, or found no homography
GeometryStageFailed ==
    \/ \E k \in 1..Len(log) :
          /\ log[k].stage = "calculate_homography"
          /\ log[k].status = "raise"
          /\ log[k].err \in {ErrInsufficientMarkers, ErrHomographyFailed}
    \/ /\ WfStageRan("calculate_homography")
       /\ Cardinality(MatchedIds(jig_config, detected_markers)) < 4

\* apart from the captured camera snapshot, the disk is as the request found it
WfDiskUntouched ==
    /\ DOMAIN wf.disk_before \subseteq DOMAIN files
    /\ \A p \in DOMAIN files :
          p # SnapshotPath => (p \in DOMAIN wf.disk_before /\ files[p] = wf.disk_before[p])

\* C2: when the homography stage of a request fails (fewer than 4 matched
\* correspondences, or no homography found), the request ends with the
\* exception and no alignment data: no alignment result is kept or written,
\* no design is exported, no preview is produced, no command is sent.
C2_GeometryFailureAbortsRequest ==
    GeometryStageFailed =>
        /\ pc = "done"
        /\ wf.result.status = "raise"
        /\ wf.result.err \in {ErrInsufficientMarkers, ErrHomographyFailed}
        /\ wf.result.val = None
        /\ ret.val = None
        /\ wf.local_alignment = None
        /\ wf.alignment_data = None
        /\ wf.export_path = None
        /\ WfDiskUntouched
        /\ warper = <<>>
        /\ sent = <<>>

\* C2 witness: a request with a design rectangle, a design and send_to_lb,
\* run in a directory holding the results of an earlier run, stopped at the
\* homography stage for lack of markers
C2_Witness ==
    /\ pc = "done"
    /\ log # <<>>
    /\ log[Len(log)].stage = "calculate_homography"
    /\ log[Len(log)].err = ErrInsufficientMarkers
    /\ DOMAIN detected_markers # {}
    /\ wf.args.design_rect_mm # None
    /\ wf.args.design.text # ""
    /\ wf.args.send_to_lb
    /\ AlignmentJsonPath \in DOMAIN files

\* position of a stage in the pipeline
StageRank(stage) ==
    CASE stage = "capture" -> 0
      [] stage = "load_image" -> 1
      [] stage = "detect_markers" -> 2
      [] stage = "calculate_homography" -> 3
      [] stage = "calculate_alignment" -> 4
      [] stage = "visualize" -> 5
      [] stage = "save_alignment" -> 6
      [] stage = "load_design" -> 7
      [] stage = "export" -> 8
      [] stage = "preview" -> 9
      [] stage = "ping" -> 10
      [] stage = "load_file" -> 11
      [] stage = "start_job" -> 12

\* the stage that must have completed before a stage may start
StagePredecessors ==
    { <<"calculate_homography", "detect_markers">>,
      <<"calculate_alignment", "calculate_homography">>,
      <<"export", "calculate_alignment">>,
      <<"preview", "export">>,
      <<"ping", "export">>,
      <<"load_file", "ping">>,
      <<"start_job", "load_file">> }

\* C7: within a request the stages run in the order detect markers,
\* estimate homography, compute alignment, export, preview, device commands;
\* a stage starts only after the preceding stage completed successfully, and
\* after a stage failed no further stage of the request runs.
C7_StagesInOrder ==
    /\ \A i, j \in 1..Len(log) : i < j => StageRank(log[i].stage) < StageRank(log[j].stage)
    /\ \A i \in 1..Len(log) : i < Len(log) => log[i].status = "ok"
    /\ (log # <<>> /\ log[Len(log)].status # "ok") => pc = "done"
    /\ \A sp \in StagePredecessors : WfStageRan(sp[1]) => WfStageOk(sp[2])

\* C7 witness: a request with auto_start that went through every stage up
\* to the device, where LightBurn answered the ping and refused the file: the
\* job was not started
C7_Witness ==
    /\ pc = "done"
    /\ wf.args.auto_start
    /\ Len(log) >= 9
    /\ log[Len(log)].stage = "load_file"
    /\ log[Len(log)].status = "fail"
    /\ WfStageOk("detect_markers") /\ WfStageOk("calculate_alignment")
    /\ WfStageOk("export") /\ WfStageOk("preview") /\ WfStageOk("ping")
    /\ Len(sent) = 2

\* the device step of the request failed: PING or FORCELOAD was sent and
\* not acknowledged
DeviceStepFailed ==
    \E k \in 1..Len(log) : log[k].stage \in {"ping", "load_file"} /\ log[k].status = "fail"

\* the device step succeeded: the file was loaded, and the job started if
\* auto_start asked for it
DeviceStepSucceeded ==
    /\ pc = "done"
    /\ WfStageOk("load_file")
    /\ wf.args.auto_start => WfStageOk("start_job")

\* the export and the alignment data of the request are in place
WfExportInPlace ==
    /\ wf.export_path = WfExportPath
    /\ WfExportPath \in DOMAIN files
    /\ files[WfExportPath].kind \in {"png", "svg"}
    /\ files[WfExportPath].px = ExportSizePx(wf.alignment_data, wf.dpi)
    /\ files[WfExportPath].design = warper[1].design_image

WfAlignmentInPlace ==
    /\ wf.alignment_data # None
    /\ wf.alignment_data = wf.local_alignment
    /\ AlignmentJsonPath \in DOMAIN files
    /\ files[AlignmentJsonPath] = [kind |-> "json", data |-> wf.alignment_data]

WfResultWhenDeviceSucceeds == [status |-> "ok", err |-> "", val |-> WfExportPath]

\* C12: a request with send_to_lb whose device step failed gives its caller
\* an outcome different from the one of the request whose device step
\* succeeded.
C12_DeviceFailureReported ==
    /\ DeviceStepSucceeded => wf.result = WfResultWhenDeviceSucceeds
    /\ (pc = "done" /\ DeviceStepFailed) => wf.result # WfResultWhenDeviceSucceeds

\* the export step of the request failed: warp_and_export raised
ExportStepFailed ==
    /\ log # <<>>
    /\ log[Len(log)].stage \in {"load_design", "export", "preview"}
    /\ log[Len(log)].status = "raise"

\* C17: when the export step fails, the alignment result computed before it
\* is unchanged and still available: the workflow's alignment_data and the
\* alignment JSON on disk.
C17_ExportFailureKeepsAlignment ==
    ExportStepFailed =>
        /\ pc = "done"
        /\ wf.result.status = "raise"
        /\ WfAlignmentInPlace
        /\ wf.export_path = None
        /\ sent = <<>>

\* C17 witness: the export raised on an unsupported format token after the
\* alignment was saved
C17_Witness ==
    /\ ExportStepFailed
    /\ log[Len(log)].stage = "export"
    /\ log[Len(log)].err = "ValueError: Unsupported format"
    /\ wf.args.format = "pdf"
    /\ AlignmentJsonPath \in DOMAIN files


\* capture_camera_image returned None: ESC was pressed or cap.read() failed
CaptureCancelled ==
    log # <<>> /\ log[1].stage = "capture" /\ log[1].status = "cancelled"

\* C30: when the capture is cancelled or the frame read fails,
\* run_complete_workflow returns None at once, with alignment_data and
\* export_path as they were before the call and nothing written, and no
\* detection, export or device command runs for the request.
C30_CancelledCaptureReturnsNone ==
    /\ [][(pc = "capture" /\ CaptureCancelled') =>
            /\ pc' = "done"
            /\ wf'.result = [status |-> "ok", err |-> "", val |-> None]
            /\ wf'.alignment_data = wf.alignment_data
            /\ wf'.export_path = wf.export_path
            /\ UNCHANGED <<alignerVars, warperVars, files, sent, controllerVars>>]_vars
    /\ [](CaptureCancelled => (Len(log) = 1 /\ sent = <<>> /\ WarperIdle
                                /\ ret.op = "__init__"))

\* a request with use_camera, send_to_lb and auto_start whose capture was
\* cancelled has returned None
C30_Witness ==
    /\ CaptureCancelled
    /\ pc = "done"
    /\ wf.args.use_camera /\ wf.args.send_to_lb /\ wf.args.auto_start
    /\ wf.result.status = "ok" /\ wf.result.val = None
    /\ wf.alignment_data = None /\ wf.export_path = None

----------------------------------------------------------------------------
(* DesignPlacer.place_design_interactive, one placer object used for        *)
(* sessions one after the other (SpecPlacer).  The loop draws, then polls   *)
(* the window with cv2.waitKey(1); the mouse callback runs inside the poll, *)
(* once per click delivered during it, before the poll returns its key.     *)
(*   placer = [homography, size, selected_position, design_rect_mm, phase, *)
(*             key, status, err, val, session]                             *)
(* selected_position is the attribute of the object; design_rect_mm is the *)
(* local variable of the call, None while it is not yet assigned.          *)

MaxSessions == 2

KeyEsc == 27
KeyEnter == 13
KeySpace == 32
\* cv2.waitKey(1) & 0xFF when no key was pressed within the poll
KeyNone == 255
Keys == {KeyEsc, KeyEnter, KeySpace, KeyNone}

\* homographies handed over by the aligner: a scaled and flipped view and a
\* perspective view of the four corner markers
PlacerHomographies ==
    LET src == <<Jig4.markers[1].position_mm, Jig4.markers[2].position_mm,
                 Jig4.markers[3].position_mm, Jig4.markers[4].position_mm>>
        dst(i) == <<DetectorOutput(i)[0], DetectorOutput(i)[1],
                    DetectorOutput(i)[2], DetectorOutput(i)[3]>>
    IN  {Solve4(src, dst(2)), Solve4(src, dst(7))}

\* design_size_mm of a session
DesignSizes == {<<RatInt(50), RatInt(50)>>, <<RatInt(100), RatInt(80)>>}

\* pixel positions of the clicks
Clicks == {<<300, 300>>, <<120, 60>>, <<0, 0>>}

NewPlacer(H) ==
    [homography |-> H, size |-> None, selected_position |-> None,
     design_rect_mm |-> None, phase |-> "constructed", key |-> KeyNone,
     status |-> "", err |-> "", val |-> None, session |-> 0]

\* the rectangle of the given size centred on the mm image of a pixel
RectAround(H, position, size) ==
    LET click_mm == ToMm(H, MmPoint(position[1], position[2]))
        design_x == RatSub(click_mm[1], RatMul(size[1], <<1, 2>>))
        design_y == RatSub(click_mm[2], RatMul(size[2], <<1, 2>>))
    IN  <<design_x, design_y, size[1], size[2]>>

\* one pass of the loop body up to cv2.imshow: with a position selected,
\* design_rect_mm is computed from it
DrawPreview(p) ==
    IF p.selected_position # None
    THEN [p EXCEPT !.design_rect_mm = RectAround(p.homography, p.selected_position, p.size)]
    ELSE p

\* if event == cv2.EVENT_LBUTTONDOWN: self.selected_position = (x, y)
mouse_callback(p, x, y) == [p EXCEPT !.selected_position = <<x, y>>]

PReturn(p, key, status, err, val) ==
    [p EXCEPT !.phase = "returned", !.key = key, !.status = status, !.err = err, !.val = val]

\* the branches on the key the poll returned
HandleKey(p, key) ==
    IF key = KeyEsc THEN PReturn(p, key, "ok", "", None)
    ELSE IF key = KeyEnter /\ p.selected_position # None
    THEN IF p.design_rect_mm = None
         THEN PReturn(p, key, "raise", "UnboundLocalError", None)
         ELSE PReturn(p, key, "ok", "", p.design_rect_mm)
    ELSE DrawPreview([p EXCEPT !.key = key])

\* the call up to its first poll
PlaceDesignInteractive(size) ==
    /\ placer.phase \in {"constructed", "returned"}
    /\ placer.session < MaxSessions
    /\ placer' = DrawPreview([placer EXCEPT !.size = size, !.selected_position = None,
                                            !.design_rect_mm = None, !.phase = "waitKey",
                                            !.key = KeyNone, !.status = "", !.err = "",
                                            !.val = None, !.session = @ + 1])
    /\ UNCHANGED <<alignerVars, warperVars, workflowVars, controllerVars, cam, job>>

\* a left click delivered during the poll
MouseCallback(x, y) ==
    /\ placer.phase = "waitKey"
    /\ placer' = mouse_callback(placer, x, y)
    /\ UNCHANGED <<alignerVars, warperVars, workflowVars, controllerVars, cam, job>>

\* the poll returns `key`; the loop handles it and, unless it returns, draws
\* again and polls again
WaitKeyReturns(key) ==
    /\ placer.phase = "waitKey"
    /\ placer' = HandleKey(placer, key)
    /\ UNCHANGED <<alignerVars, warperVars, workflowVars, controllerVars, cam, job>>

InitPlacer ==
    /\ AlignerIdle
    /\ WarperIdle
    /\ WorkflowIdle
    /\ ControllerIdle
    /\ \E H \in PlacerHomographies : placer = NewPlacer(H)
    /\ CaptureIdle
    /\ JobIdle

NextPlacer ==
    \/ \E size \in DesignSizes : PlaceDesignInteractive(size)
    \/ \E c \in Clicks : MouseCallback(c[1], c[2])
    \/ \E key \in Keys : WaitKeyReturns(key)

SpecPlacer == InitPlacer /\ [][NextPlacer]_vars

----------------------------------------------------------------------------
(* Claims about the interactive placement (specification SpecPlacer) *)

\* the states of a placement session
Idle == placer.phase = "waitKey" /\ placer.selected_position = None
Previewing == placer.phase = "waitKey" /\ placer.selected_position # None
Confirmed == placer.phase = "returned" /\ placer.key = KeyEnter
Cancelled == placer.phase = "returned" /\ placer.key = KeyEsc

\* a session begins with this step
SessionStarts == placer.phase # "waitKey" /\ placer'.phase = "waitKey"

\* C23: a placement session is the state machine Idle -> Previewing ->
\* Confirmed | Cancelled: every session starts in Idle whatever the earlier
\* sessions selected; from Idle a step leads to Idle, Previewing (a click) or
\* Cancelled, never to Confirmed; from Previewing to Previewing, Confirmed
\* or Cancelled; a session ends only Confirmed or Cancelled; Confirmed
\* returns a rectangle and Cancelled returns nothing.
C23_PlacementStateMachine ==
    [][/\ SessionStarts => Idle'
       /\ Idle => (Idle' \/ Previewing' \/ Cancelled')
       /\ Previewing => (Previewing' \/ Confirmed' \/ Cancelled')
       /\ (placer.phase = "waitKey" /\ placer'.phase = "returned") => (Confirmed' \/ Cancelled')
       /\ Confirmed' => (placer'.status = "ok" /\ Len(placer'.val) = 4)
       /\ Cancelled' => (placer'.status = "ok" /\ placer'.val = None)]_vars

\* C29: a confirmed placement returns the rectangle centred on the mm image
\* of the position clicked last, whatever the order in which clicks and keys
\* reached the session.
C29_ConfirmReturnsLatestClick ==
    Confirmed =>
        /\ placer.status = "ok"
        /\ placer.val = RectAround(placer.homography, placer.selected_position, placer.size)

----------------------------------------------------------------------------
(* The interactive captures: AlignmentWorkflow.capture_camera_image and     *)
(* CameraCalibrator.capture_images_from_camera, stepped one pass of the     *)
(* loop at a time (SpecCapture).                                            *)
(*   cam = [fn, num_images, cap, window, phase, frames, captured, status,  *)
(*          err, saved]                                                    *)
(* cap is the cv2.VideoCapture handle: "none" before the call, "failed"    *)
(* when the device did not open, "open", "released"; window tells whether  *)
(* the preview window is on screen; frames counts the frames read and      *)
(* captured the frames saved; saved tells whether the call returned a path *)
(* (capture_camera_image).                                                 *)

\* frames a capture reads at most
MaxFrames == 4

CaptureFns == {"capture_camera_image", "capture_images_from_camera"}

\* num_images of a calibration capture; capture_camera_image saves one frame
NumImages(fn) == IF fn = "capture_camera_image" THEN {1} ELSE {1, 2, 3}

\* one pass of the loop: what cap.read() gave, whether the chessboard was
\* found in the frame, the key the poll returned, and the error, if any,
\* raised by a call of the pass
LoopEvents ==
    {[read |-> FALSE, corners |-> FALSE, key |-> KeyNone, error |-> ""]}
    \cup {[read |-> TRUE, corners |-> c, key |-> k, error |-> ""] :
            c \in BOOLEAN, k \in Keys \ {KeyEnter}}
    \cup {[read |-> TRUE, corners |-> TRUE, key |-> KeyNone, error |-> e] :
            e \in {"cv2.error: imshow", "KeyboardInterrupt"}}
    \cup {[read |-> TRUE, corners |-> TRUE, key |-> KeySpace, error |-> "cv2.error: imwrite"]}

NewCapture ==
    [fn |-> "", num_images |-> 0, cap |-> "none", window |-> FALSE, phase |-> "idle",
     frames |-> 0, captured |-> 0, status |-> "", err |-> "", saved |-> FALSE]

\* an exception leaves the call: nothing between the raise and the caller
\* releases the handle or closes the window
CaptureRaises(c, err) ==
    [c EXCEPT !.phase = "returned", !.status = "raise", !.err = err]

\* cap.release(); cv2.destroyAllWindows(); return
CaptureReturns(c, saved) ==
    [c EXCEPT !.phase = "returned", !.status = "ok", !.saved = saved,
              !.cap = "released", !.window = FALSE]

\* one pass of the loop of either capture
CapturePass(c, ev) ==
    LET c1 == [c EXCEPT !.frames = @ + 1]
        shown == [c1 EXCEPT !.window = TRUE]
        \* SPACE saves the frame; the calibration capture only with corners
        saves == ev.key = KeySpace /\ (c.fn = "capture_camera_image" \/ ev.corners)
        kept == [shown EXCEPT !.captured = @ + 1]
    IN  IF ~ev.read THEN CaptureReturns(c1, FALSE)
        ELSE IF ev.error = "cv2.error: imshow" THEN CaptureRaises(c1, ev.error)
        ELSE IF ev.error = "KeyboardInterrupt" THEN CaptureRaises(shown, ev.error)
        ELSE IF ev.key = KeyEsc THEN CaptureReturns(shown, FALSE)
        ELSE IF saves /\ ev.error = "cv2.error: imwrite" THEN CaptureRaises(shown, ev.error)
        ELSE IF saves /\ c.fn = "capture_camera_image" THEN CaptureReturns(kept, TRUE)
        ELSE IF saves /\ kept.captured >= c.num_images THEN CaptureReturns(kept, FALSE)
        ELSE IF saves THEN kept
        ELSE shown

\* cap = cv2.VideoCapture(0); if not cap.isOpened(): raise RuntimeError
CaptureCall(fn, num_images, opened) ==
    /\ cam.phase \in {"idle", "returned"}
    /\ cam' = IF opened
              THEN [NewCapture EXCEPT !.fn = fn, !.num_images = num_images,
                                      !.cap = "open", !.phase = "loop"]
              ELSE CaptureRaises([NewCapture EXCEPT !.fn = fn, !.num_images = num_images,
                                                    !.cap = "failed"],
                                 "RuntimeError: Could not open camera")
    /\ UNCHANGED <<alignerVars, warperVars, workflowVars, controllerVars, placer, job>>

CaptureLoop(ev) ==
    /\ cam.phase = "loop"
    /\ cam.frames < MaxFrames
    /\ cam' = CapturePass(cam, ev)
    /\ UNCHANGED <<alignerVars, warperVars, workflowVars, controllerVars, placer, job>>

InitCapture ==
    /\ AlignerIdle
    /\ WarperIdle
    /\ WorkflowIdle
    /\ ControllerIdle
    /\ PlacerIdle
    /\ cam = NewCapture
    /\ JobIdle

NextCapture ==
    \/ \E fn \in CaptureFns : \E n \in NumImages(fn) : \E opened \in BOOLEAN :
          CaptureCall(fn, n, opened)
    \/ \E ev \in LoopEvents : CaptureLoop(ev)

SpecCapture == InitCapture /\ [][NextCapture]_vars

----------------------------------------------------------------------------
(* Claims about the interactive captures (specification SpecCapture) *)

\* the capture has ended, by a return or by an exception, after the camera
\* was opened
CaptureEnded == cam.phase = "returned" /\ cam.cap # "failed"

\* C24: when a capture that opened the camera has ended, on whichever path,
\* the camera handle is released and the preview window is closed.
C24_CaptureReleasesOnEveryExit ==
    CaptureEnded => (cam.cap = "released" /\ ~cam.window)

----------------------------------------------------------------------------
(* ArucoAligner built from a jig configuration file that may lack required  *)
(* fields, then driven by arbitrary calls (SpecConfig).  A field that the   *)
(* JSON object lacks is a field that the record lacks.                      *)

\* configuration files without one of the required fields
JigNoName == [board_size_mm |-> BoardSizeMm, markers |-> Jig4.markers]
JigNoBoardSize == [jig_name |-> "default", markers |-> Jig4.markers]
JigNoMarkers == [jig_name |-> "default", board_size_mm |-> BoardSizeMm]
JigNoPosition ==
    [ jig_name |-> "default",
      board_size_mm |-> BoardSizeMm,
      markers |-> << Jig4.markers[1], Jig4.markers[2], [key |-> <<2>>], Jig4.markers[4] >> ]

JigFiles == {Jig4, JigNoName, JigNoBoardSize, JigNoMarkers, JigNoPosition}

\* json.load and the three prints of load_jig_config: config['jig_name'],
\* config['board_size_mm'], len(config['markers'])
load_jig_config(config) ==
    IF "jig_name" \notin DOMAIN config
    THEN [status |-> "raise", err |-> "KeyError: 'jig_name'", val |-> None]
    ELSE IF "board_size_mm" \notin DOMAIN config
    THEN [status |-> "raise", err |-> "KeyError: 'board_size_mm'", val |-> None]
    ELSE IF "markers" \notin DOMAIN config
    THEN [status |-> "raise", err |-> "KeyError: 'markers'", val |-> None]
    ELSE [status |-> "ok", err |-> "", val |-> config]

\* an ArucoAligner exists
Constructed == jig_config # None

\* ArucoAligner(jig_config_path): self.jig_config = self.load_jig_config(...)
\* and the empty detection results
ConstructAligner(config) ==
    /\ ~Constructed
    /\ ret.op = "none"
    /\ LET o == load_jig_config(config)
       IN  /\ jig_config' = o.val
           /\ ret' = [op |-> "__init__", arg |-> config, status |-> o.status,
                      err |-> o.err, val |-> None]
    /\ image' = NewAligner.image
    /\ detected_markers' = NewAligner.detected_markers
    /\ homography' = NewAligner.homography
    /\ corr' = NewAligner.corr
    /\ UNCHANGED <<warperVars, workflowVars, controllerVars, sessionVars>>

InitConfig ==
    /\ jig_config = None
    /\ image = NewAligner.image
    /\ detected_markers = NewAligner.detected_markers
    /\ homography = NewAligner.homography
    /\ corr = NewAligner.corr
    /\ ret = [op |-> "none", arg |-> None, status |-> "ok", err |-> "", val |-> None]
    /\ WarperIdle
    /\ WorkflowIdle
    /\ ControllerIdle
    /\ SessionsIdle

NextConfig ==
    \/ \E config \in JigFiles : ConstructAligner(config)
    \/ Constructed /\ Next

SpecConfig == InitConfig /\ [][NextConfig]_vars

----------------------------------------------------------------------------
(* Claims about the jig configuration (specification SpecConfig) *)

\* the required fields are all there
WellFormedConfig(config) ==
    /\ {"jig_name", "board_size_mm", "markers"} \subseteq DOMAIN config
    /\ \A k \in 1..Len(config.markers) : "position_mm" \in DOMAIN config.markers[k]

\* the errors of a missing field
MissingFieldErrors ==
    {"KeyError: 'jig_name'", "KeyError: 'board_size_mm'", "KeyError: 'markers'",
     "KeyError: 'position_mm'"}

\* C25: a configuration that lacks a required field is rejected when the
\* aligner is built from it, before an image is loaded or a marker
\* detected, and no later call fails for a missing field.
C25_MalformedConfigRejectedAtLoad ==
    /\ (ret.op = "__init__" /\ ~WellFormedConfig(ret.arg)) =>
          (ret.status = "raise" /\ ret.err \in MissingFieldErrors /\ ~Constructed)
    /\ Constructed => WellFormedConfig(jig_config)
    /\ ret.op # "__init__" => ret.err \notin MissingFieldErrors

----------------------------------------------------------------------------
(* Python floats: IEEE 754 binary64.  A float is [m, e], standing for      *)
(* M * 2^e where M is the natural number whose binary digits are m, least  *)
(* significant first; m has 53 digits with the last one 1, or is empty for *)
(* zero.  Sums are rounded to nearest, ties to even.                       *)

MantissaBits == 53

\* binary digits of a natural number, least significant first
RECURSIVE BitsOf(_)
BitsOf(n) == IF n = 0 THEN <<>> ELSE <<n % 2>> \o BitsOf(n \div 2)

\* without the zeros at the most significant end
RECURSIVE Trim(_)
Trim(b) ==
    IF b = <<>> THEN b
    ELSE IF b[Len(b)] = 0 THEN Trim(SubSeq(b, 1, Len(b) - 1))
    ELSE b

Bit(b, i) == IF i <= Len(b) THEN b[i] ELSE 0

\* sum of two naturals: digit i of the sum is the sum of the two digits and
\* of the carry into i, which comes from the nearest lower position where
\* both digits are 1 when every position in between passes it on
BitsAdd(a, b) ==
    LET n == IF Len(a) > Len(b) THEN Len(a) ELSE Len(b)
        Carry(i) ==
            \E j \in 1..(i - 1) :
                /\ Bit(a, j) = 1 /\ Bit(b, j) = 1
                /\ \A k \in (j + 1)..(i - 1) : Bit(a, k) + Bit(b, k) >= 1
    IN  Trim([i \in 1..(n + 1) |->
                (Bit(a, i) + Bit(b, i) + (IF Carry(i) THEN 1 ELSE 0)) % 2])

\* b * 2^n
ShiftLeft(b, n) == IF b = <<>> THEN b ELSE [i \in 1..n |-> 0] \o b

\* a < b as natural numbers
BitsLess(a, b) ==
    LET x == Trim(a)
        y == Trim(b)
    IN  IF Len(x) # Len(y) THEN Len(x) < Len(y)
        ELSE \E i \in 1..Len(x) :
                /\ x[i] < y[i]
                /\ \A j \in (i + 1)..Len(x) : x[j] = y[j]

\* the float nearest to bits * 2^e, ties to even
RoundToDouble(bits, e) ==
    LET b == Trim(bits)
        L == Len(b)
        d == L - MantissaBits
        keep == SubSeq(b, d + 1, L)
        up == /\ b[d] = 1
              /\ ((\E i \in 1..(d - 1) : b[i] = 1) \/ keep[1] = 1)
        r == IF up THEN BitsAdd(keep, <<1>>) ELSE keep
    IN  IF L = 0 THEN [m |-> <<>>, e |-> 0]
        ELSE IF L <= MantissaBits
        THEN [m |-> ShiftLeft(b, MantissaBits - L), e |-> e - (MantissaBits - L)]
        ELSE IF Len(r) > MantissaBits
        THEN [m |-> SubSeq(r, 2, Len(r)), e |-> e + d + 1]
        ELSE [m |-> r, e |-> e + d]

\* the common exponent two floats are brought to
CommonExponent(x, y) ==
    IF x.m = <<>> THEN y.e
    ELSE IF y.m = <<>> THEN x.e
    ELSE IF x.e < y.e THEN x.e ELSE y.e

\* the sum is kept exact: a float of unbounded precision
DoubleAddExact(x, y) ==
    LET e0 == CommonExponent(x, y)
    IN  [m |-> BitsAdd(ShiftLeft(x.m, x.e - e0), ShiftLeft(y.m, y.e - e0)), e |-> e0]

\* x + y
DoubleAdd(x, y) ==
    LET e0 == CommonExponent(x, y)
    IN  RoundToDouble(BitsAdd(ShiftLeft(x.m, x.e - e0), ShiftLeft(y.m, y.e - e0)), e0)

\* x < y
DoubleLess(x, y) ==
    LET e0 == CommonExponent(x, y)
    IN  BitsLess(ShiftLeft(x.m, x.e - e0), ShiftLeft(y.m, y.e - e0))

\* float(n) for a small natural number
DoubleOfInt(n) == RoundToDouble(BitsOf(n), 0)

\* the float with the hexadecimal digits `digits` (most significant first)
\* times 2^e
DoubleOfHex(digits, e) ==
    LET RECURSIVE Go(_, _)
        Go(k, acc) ==
            IF k = 0 THEN acc
            ELSE Go(k - 1, acc \o [i \in 1..4 |-> (digits[k] \div (2 ^ (i - 1))) % 2])
    IN  RoundToDouble(Go(Len(digits), <<>>), e)

\* the literals 0.5, 0.25 and 0.1
DoubleHalf == DoubleOfHex(<<1>>, -1)
DoubleQuarter == DoubleOfHex(<<1>>, -2)
DoubleTenth == DoubleOfHex(<<1, 9, 9, 9, 9, 9, 9, 9, 9, 9, 9, 9, 9, 10>>, -56)

\* x added k times without rounding: the real number k * x
RECURSIVE Times(_, _)
Times(k, x) == IF k = 0 THEN [m |-> <<>>, e |-> 0] ELSE DoubleAddExact(Times(k - 1, x), x)

----------------------------------------------------------------------------
(* The device conversations: AlignmentWorkflow.send_to_lightburn,           *)
(* load_and_start and LightBurnController.wait_for_ready, one call from     *)
(* its first command to its return (SpecJob).                               *)
(*   job = [fn, file_path, wait_for_ready, auto_start, max_wait,            *)
(*          poll_interval, pc, sent, elapsed, status, err, val]: the        *)
(*         function called and its arguments, the controller operation it   *)
(*         is about to run, the commands sent so far, each with whether     *)
(*         its reply contained OK, the local `elapsed` of wait_for_ready,   *)
(*         and the result.  <<>> before the call.                           *)

JobFns == {"send_to_lightburn", "load_and_start", "wait_for_ready"}

\* wait_for_ready(max_wait=10, poll_interval=0.5)
DefaultWait == [max_wait |-> 10, poll_interval |-> DoubleHalf]

\* the (max_wait, poll_interval) a caller of wait_for_ready passes
WaitArgs ==
    { DefaultWait,
      [max_wait |-> 1, poll_interval |-> DoubleTenth],
      [max_wait |-> 1, poll_interval |-> DoubleQuarter],
      [max_wait |-> 2, poll_interval |-> DoubleHalf],
      [max_wait |-> 0, poll_interval |-> DoubleHalf] }

\* the arguments of a call: wait_for_ready takes the two numbers, the other
\* two a path and flags, and load_and_start waits with the defaults
JobArgs(fn) ==
    IF fn = "wait_for_ready"
    THEN [file_path : {None}, wait_for_ready : {TRUE}, auto_start : {FALSE}, wait : WaitArgs]
    ELSE [file_path : {DesignFile, MissingFile},
          wait_for_ready : IF fn = "load_and_start" THEN BOOLEAN ELSE {FALSE},
          auto_start : BOOLEAN, wait : {DefaultWait}]

JobReturns(j, val) == [j EXCEPT !.pc = "returned", !.status = "ok", !.val = val]

JobRaises(j, err) == [j EXCEPT !.pc = "returned", !.status = "raise", !.err = err]

\* the command of a controller operation joins the commands sent
JobSent(j, c) ==
    IF c.cmd = None THEN j
    ELSE [j EXCEPT !.sent = Append(@, [verb |-> c.cmd.verb, uri |-> c.cmd.uri,
                                       acked |-> c.result.status = "ok" /\ c.result.val])]

\* wait_for_ready returns val: to its caller, or into load_and_start's
\* `if wait_for_ready and not controller.wait_for_ready(): return False`
WaitReturns(j, val) ==
    IF j.fn = "load_and_start" /\ val THEN [j EXCEPT !.pc = "load_file"]
    ELSE JobReturns(j, val)

\* while elapsed < max_wait: ... ; return False
WaitLoop(j) ==
    IF DoubleLess(j.elapsed, DoubleOfInt(j.max_wait)) THEN [j EXCEPT !.pc = "wait"]
    ELSE WaitReturns(j, FALSE)

\* the call up to its first controller operation
NewJob(fn, a) ==
    LET j == [fn |-> fn, file_path |-> a.file_path, wait_for_ready |-> a.wait_for_ready,
              auto_start |-> a.auto_start, max_wait |-> a.wait.max_wait,
              poll_interval |-> a.wait.poll_interval, pc |-> "ping", sent |-> <<>>,
              elapsed |-> DoubleOfInt(0), status |-> "running", err |-> "", val |-> FALSE]
    IN  IF fn = "send_to_lightburn" THEN j
        ELSE IF a.wait_for_ready THEN WaitLoop(j)
        ELSE [j EXCEPT !.pc = "load_file"]

\* send_to_lightburn: if not controller.ping(): return False
job_ping(j, fs, received) ==
    LET c == ControllerCall("ping", None, fs, received)
        k == JobSent(j, c)
    IN  IF c.result.status = "raise" THEN JobRaises(k, c.result.err)
        ELSE IF SendContinues(c.result.val) THEN [k EXCEPT !.pc = "load_file"]
        ELSE JobReturns(k, FALSE)

\* wait_for_ready, one pass of the loop: if self.ping(): return True;
\* time.sleep(poll_interval); elapsed += poll_interval
wait_poll(j, fs, received) ==
    LET c == ControllerCall("ping", None, fs, received)
        k == JobSent(j, c)
    IN  IF c.result.status = "raise" THEN JobRaises(k, c.result.err)
        ELSE IF c.result.val THEN WaitReturns(k, TRUE)
        ELSE WaitLoop([k EXCEPT !.elapsed = DoubleAdd(j.elapsed, j.poll_interval)])

\* if not controller.load_file(file_path, force=True): return False
job_load_file(j, fs, received) ==
    LET c == ControllerCall("load_file", [file_path |-> j.file_path, force |-> TRUE],
                            fs, received)
        k == JobSent(j, c)
    IN  IF c.result.status = "raise" THEN JobRaises(k, c.result.err)
        ELSE IF ~SendContinues(c.result.val) THEN JobReturns(k, FALSE)
        ELSE IF j.auto_start THEN [k EXCEPT !.pc = "start_job"]
        ELSE JobReturns(k, TRUE)

\* send_to_lightburn: controller.start_job(); return True
\* load_and_start: if not controller.start_job(): return False; return True
job_start_job(j, fs, received) ==
    LET c == ControllerCall("start_job", None, fs, received)
        k == JobSent(j, c)
    IN  IF c.result.status = "raise" THEN JobRaises(k, c.result.err)
        ELSE IF j.fn = "load_and_start" THEN JobReturns(k, c.result.val)
        ELSE JobReturns(k, TRUE)

JobOthersUnchanged == UNCHANGED <<alignerVars, warperVars, workflowVars, controllerVars, placer, cam>>

JobCall(fn, a) ==
    /\ JobIdle
    /\ job' = NewJob(fn, a)
    /\ JobOthersUnchanged

JobPing(received) ==
    /\ ~JobIdle
    /\ job.pc = "ping"
    /\ job' = job_ping(job, files, received)
    /\ JobOthersUnchanged

WaitPoll(received) ==
    /\ ~JobIdle
    /\ job.pc = "wait"
    /\ job' = wait_poll(job, files, received)
    /\ JobOthersUnchanged

JobLoadFile(received) ==
    /\ ~JobIdle
    /\ job.pc = "load_file"
    /\ job' = job_load_file(job, files, received)
    /\ JobOthersUnchanged

JobStartJob(received) ==
    /\ ~JobIdle
    /\ job.pc = "start_job"
    /\ job' = job_start_job(job, files, received)
    /\ JobOthersUnchanged

InitJob ==
    /\ AlignerIdle
    /\ WarperIdle
    /\ wf = <<>> /\ pc = "idle" /\ log = <<>> /\ sent = <<>>
    /\ files \in {NoFiles, WriteFile(NoFiles, DesignFile, [kind |-> "png"])}
    /\ ControllerIdle
    /\ SessionsIdle

NextJob ==
    \/ \E fn \in JobFns : \E a \in JobArgs(fn) : JobCall(fn, a)
    \/ \E received \in Replies : JobPing(received)
    \/ \E received \in Replies : WaitPoll(received)
    \/ \E received \in Replies : JobLoadFile(received)
    \/ \E received \in Replies : JobStartJob(received)

SpecJob == InitJob /\ [][NextJob]_vars

----------------------------------------------------------------------------
(* Claims about the device conversations (specification SpecJob) *)

JobReturned == ~JobIdle /\ job.pc = "returned"

\* the PINGs a call sent
Pings == IF JobIdle THEN 0 ELSE Cardinality({k \in DOMAIN job.sent : job.sent[k].verb = "PING"})

\* the call checks readiness before it loads the file
ChecksReadiness == job.fn = "send_to_lightburn" \/ (job.fn = "load_and_start" /\ job.wait_for_ready)

\* C26: in send_to_lightburn and load_and_start, START follows a FORCELOAD
\* of the same call that was acknowledged with OK, FORCELOAD follows a
\* PING that was acknowledged with OK when the call checks readiness, and
\* no load command is sent for a file that does not exist.
C26_CommandOrder ==
    (~JobIdle /\ job.fn \in {"send_to_lightburn", "load_and_start"}) =>
        /\ \A k \in DOMAIN job.sent :
              job.sent[k].verb = "START" =>
                  /\ k > 1
                  /\ job.sent[k - 1].verb = "FORCELOAD"
                  /\ job.sent[k - 1].acked
        /\ \A k \in DOMAIN job.sent :
              (job.sent[k].verb = "FORCELOAD" /\ ChecksReadiness) =>
                  /\ k > 1
                  /\ job.sent[k - 1].verb = "PING"
                  /\ job.sent[k - 1].acked
        /\ job.file_path \notin DOMAIN files =>
              \A k \in DOMAIN job.sent : job.sent[k].verb \notin {"FORCELOAD", "LOADFILE", "START"}

\* a load_and_start that waited, loaded and started, each command
\* acknowledged, after a first PING that was not
C26_Witness ==
    /\ JobReturned
    /\ job.fn = "load_and_start"
    /\ job.status = "ok" /\ job.val
    /\ Len(job.sent) = 4
    /\ ~job.sent[1].acked
    /\ job.sent[4].verb = "START"

\* C27: send_to_lightburn returns True only when every command it sent
\* was acknowledged with a reply containing OK.
C27_TrueOnlyWhenAllAcked ==
    (JobReturned /\ job.fn = "send_to_lightburn" /\ job.status = "ok" /\ job.val) =>
        \A k \in DOMAIN job.sent : job.sent[k].acked

\* C28: wait_for_ready sends at most ceil(max_wait / poll_interval) PINGs:
\* n <= ceil(x) exactly when n = 0 or n - 1 < x, that is, when
\* (n - 1) * poll_interval < max_wait.
C28_AtMostCeilPings ==
    (~JobIdle /\ job.fn = "wait_for_ready") =>
        \/ Pings = 0
        \/ DoubleLess(Times(Pings - 1, job.poll_interval), DoubleOfInt(job.max_wait))

====
